---- MODULE Spec2Model ----
(***************************************************************************)
(* A model of markdown-to-pdf's styling and layout engine                  *)
(* (src/src/lib/editor.ts) and of the handlers of App that drive it.       *)
(*                                                                         *)
(* Encoding.                                                               *)
(*  - A JavaScript string is a TLA+ string; s.length is Len(s),            *)
(*    s.slice(a, b) is SubSeq(s, a + 1, b) and + is \o.                    *)
(*  - A JavaScript number that measures something (points, pixels of type, *)
(*    ems, millimetres) is kept in thousandths: 16 is 16000, 1.25 is 1250, *)
(*    215.9 is 215900.  Every such quantity of the program has at most     *)
(*    three decimals, so the arithmetic of the model is exact.  NaN is the *)
(*    integer NaN, which no finite quantity reaches; Math.min, Math.max    *)
(*    and the comparisons treat it as IEEE 754 does.                       *)
(*  - Counts (lengths, offsets into a string, canvas pixels) are plain     *)
(*    integers.                                                            *)
(*  - A JSON text is INVALID_JSON (JSON.parse throws) or the value it      *)
(*    denotes, a tree of tagged records: JNum, JStr, JBool, JNull, JArr,   *)
(*    JObj.  A property that is absent reads as JUndefined.                *)
(***************************************************************************)
EXTENDS Integers, Sequences, FiniteSets, TLC

VARIABLES
  (* styleset export / import: serializeStylesetState, parseStylesetState *)
  ssPc,          \* "export" | "file" | "parsed"
  ssState,       \* the StylesetState handed to serializeStylesetState, or NoStyleset
  ssText,        \* the JSON text of the styleset file, or NoText
  ssParsed,      \* what parseStylesetState did with ssText, or NoResult
  (* applyThemePreset *)
  themeCurrent,  \* the StyleState handed to applyThemePreset
  themeKey,      \* the preset applied, or "" before the call
  themeNext,     \* the StyleState it returned, or NoStyle before the call
  (* buildPdfImagePlan and the pages handleDownloadPdf adds *)
  planPc,        \* "idle" | "start" | "loop" | "planned" | "saved"
  planInput,     \* canvasWidthPx, canvasHeightPx, pageWidthMm, pageHeightMm, marginMm
  plan,          \* safeMarginMm, printableWidthMm, printableHeightMm, renderedHeightMm, offsetsYMm
  heightLeft,    \* the loop variable of buildPdfImagePlan
  pdfPages,      \* the addImage call of each page of the PDF
  (* buildPagedDocumentCss *)
  cssInput,      \* style, pagePreset, horizontalMarginMm, verticalMarginMm, chrome
  css,           \* the stylesheet it returned, or "" before the call
  (* the markdown toolbar: applyToolbarAction, applyMarkdownAction *)
  textarea,      \* value, selectionStart, selectionEnd of the editor's textarea
  lastEdit,      \* the action applied last, the textarea before it and the edit
  (* DocumentContent: prepareMarkdownForRender *)
  renderPc,         \* "idle" | "ready" | "done"
  renderMarkdown,   \* the markdown prop
  renderedMarkdown, \* prepareMarkdownForRender(markdown), or "" before the call
  (* App: document settings and the three PaletteColorField components *)
  styleState,                 \* useState(DEFAULT_STYLE)
  styleStateRef,              \* which object styleState is: "DEFAULT_STYLE" | "other"
  themeSelection,             \* the themePreset state
  pagePresetKey,              \* the pagePreset state
  marginsMm,                  \* the margin state
  chromeState,                \* the pageChrome state
  chromeStateRef,             \* which object pageChrome is: "DEFAULT_PAGE_CHROME" | "other"
  stylesetNotice,             \* null, or tone and message
  paletteCommitGenerationRef, \* paletteCommitGenerationRef.current
  commitGeneration,           \* the commitGeneration prop, read at the last render of App
  draftValue,                 \* draftValue of each palette field
  pendingCommitRef,           \* the timeout of each palette field, or NoTimer
  importFile,                 \* the text of the file an import is reading, or NoText
  settingsOps,                \* how many events the settings have handled
  lastOp,                     \* the event handled last, and the state it began in
  settled,                    \* the theme and palette the last select, reset or import set
  inputSince,                 \* whether a colour was entered or picked since then
  (* App: the paged preview *)
  renderInputs,     \* version of the effect's dependencies (markdown, fonts, margin, chrome, preset, style)
  previewRequests,  \* the runs of renderPagedPreview, oldest first: stage, cancelled flag, inputs
  isPaginating,     \* the isPaginating state
  paginationError,  \* the paginationError state, "" for null
  pageCount,        \* the pageCount state
  previewerRef,     \* the run whose previewer previewerRef.current holds, 0 for null
  containerFrom,    \* the run whose pages are the children of the preview container, 0 for none
  pageCountFrom,    \* the run that called setPageCount last, 0 for none
  unhandledErrors,  \* exceptions that left renderPagedPreview
  lastPrint,        \* the state in which window.print was last invoked
  mounted,          \* whether App is mounted
  (* App: the divider between editor and preview *)
  splitRatio,    \* the splitRatio state, a double
  isResizing,    \* the isResizing state
  leftRun,       \* how many ArrowLeft presses in a row were handled last
  splitHistory,  \* the events handled since the start, while there is at most one
  (* updateStyle on one key *)
  styleKey,         \* the key updateStyle is called with
  selectionBefore,  \* the theme selection before the call
  styleKeyResult    \* what isPaletteStyleKey returned and the theme selection after the call

ssVars == <<ssPc, ssState, ssText, ssParsed>>

themeVars == <<themeCurrent, themeKey, themeNext>>

planVars == <<planPc, planInput, plan, heightLeft, pdfPages>>

cssVars == <<cssInput, css>>

editVars == <<textarea, lastEdit>>

renderVars == <<renderPc, renderMarkdown, renderedMarkdown>>

settingsState == <<styleState, styleStateRef, themeSelection, pagePresetKey, marginsMm, chromeState, chromeStateRef, stylesetNotice>>

paletteFields == <<paletteCommitGenerationRef, commitGeneration, draftValue, pendingCommitRef>>

settingsVars == <<settingsState, paletteFields, importFile, settingsOps, lastOp, settled, inputSince>>

previewVars == <<renderInputs, previewRequests, isPaginating, paginationError, pageCount, previewerRef, containerFrom, pageCountFrom, unhandledErrors, lastPrint, mounted>>

splitVars == <<splitRatio, isResizing, leftRun, splitHistory>>

styleKeyVars == <<styleKey, selectionBefore, styleKeyResult>>

vars == <<ssVars, themeVars, planVars, cssVars, editVars, renderVars, settingsVars, previewVars, splitVars, styleKeyVars>>

\* What each part of the program leaves alone.
notStyleset == <<themeVars, planVars, cssVars, editVars, renderVars, settingsVars, previewVars, splitVars, styleKeyVars>>

notTheme == <<ssVars, planVars, cssVars, editVars, renderVars, settingsVars, previewVars, splitVars, styleKeyVars>>

notPlan == <<ssVars, themeVars, cssVars, editVars, renderVars, settingsVars, previewVars, splitVars, styleKeyVars>>

notCss == <<ssVars, themeVars, planVars, editVars, renderVars, settingsVars, previewVars, splitVars, styleKeyVars>>

notEdit == <<ssVars, themeVars, planVars, cssVars, renderVars, settingsVars, previewVars, splitVars, styleKeyVars>>

notRender == <<ssVars, themeVars, planVars, cssVars, editVars, settingsVars, previewVars, splitVars, styleKeyVars>>

notSettings == <<ssVars, themeVars, planVars, cssVars, editVars, renderVars, previewVars, splitVars, styleKeyVars>>

notPreview == <<ssVars, themeVars, planVars, cssVars, editVars, renderVars, settingsVars, splitVars, styleKeyVars>>

notSplit == <<ssVars, themeVars, planVars, cssVars, editVars, renderVars, settingsVars, previewVars, styleKeyVars>>

notStyleKey == <<ssVars, themeVars, planVars, cssVars, editVars, renderVars, settingsVars, previewVars, splitVars>>

-----------------------------------------------------------------------------
(* JavaScript numbers *)

NaN == 0 - 2000000000

IsNaN(x) == x = NaN

\* Math.max / Math.min: NaN if either argument is NaN.
MathMax(a, b) == IF IsNaN(a) \/ IsNaN(b) THEN NaN ELSE IF a >= b THEN a ELSE b

MathMin(a, b) == IF IsNaN(a) \/ IsNaN(b) THEN NaN ELSE IF a <= b THEN a ELSE b

\* x / 2 - 12 on millimetres (thousandths: every page dimension is even).
HalfMinusInset(x) == IF IsNaN(x) THEN NaN ELSE (x \div 2) - 12000

\* clamp that forgets its lower bound.
clampUpperOnly(value, min, max) == MathMin(value, max)

clamp(value, min, max) == MathMin(MathMax(value, min), max)

-----------------------------------------------------------------------------
(* Configuration model *)

PAGE_PRESETS ==
  [ a4     |-> [label |-> "A4",     widthMm |-> 210000, heightMm |-> 297000],
    letter |-> [label |-> "Letter", widthMm |-> 215900, heightMm |-> 279400],
    legal  |-> [label |-> "Legal",  widthMm |-> 215900, heightMm |-> 355600] ]

THEME_PRESETS ==
  [ classic |-> [label |-> "Classic Print",  background |-> "#ffffff", text |-> "#111111", accent |-> "#111111"],
    warm    |-> [label |-> "Warm Editorial", background |-> "#f7f1e3", text |-> "#1f2329", accent |-> "#c97342"],
    slate   |-> [label |-> "Slate Room",     background |-> "#e8ecf3", text |-> "#18212c", accent |-> "#5271ff"],
    forest  |-> [label |-> "Field Notes",    background |-> "#eef2e6", text |-> "#1b2a22", accent |-> "#3f7a57"],
    noir    |-> [label |-> "Noir Print",     background |-> "#191613", text |-> "#f5eadc", accent |-> "#f2a65a"] ]

\* The keys of FONT_PRESETS (the families themselves are only interpolated into CSS).
FONT_PRESETS ==
  { "libre", "ebgaramond", "fraunces", "dmserif", "playfair", "cormorant",
    "literata", "spectral", "crimson", "lora", "merriweather", "space",
    "manrope", "work", "dmsans", "plex", "source" }

HEADER_POSITIONS == {"top-left", "top-center", "top-right"}

FOOTER_POSITIONS == {"bottom-left", "bottom-center", "bottom-right"}

\* Object.entries order of the boxes record of buildMarginBoxRules.
PAGE_NUMBER_POSITIONS ==
  <<"top-left", "top-center", "top-right", "bottom-left", "bottom-center", "bottom-right">>

MarginBoxPositions == {PAGE_NUMBER_POSITIONS[i] : i \in DOMAIN PAGE_NUMBER_POSITIONS}

MIN_CHROME_FONT_SIZE_PT == 7000

MAX_CHROME_FONT_SIZE_PT == 16000

DEFAULT_CHROME_FONT_SIZE_PT == 9000

PALETTE_STYLE_KEYS == {"background", "text", "accent"}

DEFAULT_STYLE ==
  [ fontFamily       |-> "literata",
    headingFamily    |-> "libre",
    bodyFontSize     |-> 16000,
    headingBaseSize  |-> 22000,
    lineHeight       |-> 1650,
    paragraphSpacing |-> 1100,
    letterSpacing    |-> 0,
    background       |-> "#ffffff",
    text             |-> "#111111",
    accent           |-> "#111111" ]

DEFAULT_PAGE_PRESET == "a4"

DEFAULT_THEME_PRESET == "classic"

DEFAULT_HORIZONTAL_MARGIN_MM == 16000

DEFAULT_VERTICAL_MARGIN_MM == 16000

MIN_HORIZONTAL_MARGIN_MM == 0

MIN_VERTICAL_MARGIN_MM == 8000

DEFAULT_PAGE_CHROME ==
  [ headerEnabled      |-> FALSE,
    headerText         |-> "",
    headerPosition     |-> "top-center",
    headerFontSizePt   |-> DEFAULT_CHROME_FONT_SIZE_PT,
    footerEnabled      |-> FALSE,
    footerText         |-> "",
    footerPosition     |-> "bottom-center",
    footerFontSizePt   |-> DEFAULT_CHROME_FONT_SIZE_PT,
    pageNumbersEnabled |-> TRUE,
    pageNumberPosition |-> "bottom-right" ]

\* isPaletteStyleKey(key): PALETTE_STYLE_KEYS.includes(key)
\* A test that misses the last entry of PALETTE_STYLE_KEYS.
isPaletteStyleKeyButLast(key) == key \in (PALETTE_STYLE_KEYS \ {"accent"})

isPaletteStyleKey(key) == key \in PALETTE_STYLE_KEYS

\* applyThemePreset that starts from DEFAULT_STYLE instead of ...current.
applyThemePresetOntoDefaults(current, preset) ==
  [DEFAULT_STYLE EXCEPT !.background = THEME_PRESETS[preset].background,
                        !.text = THEME_PRESETS[preset].text,
                        !.accent = THEME_PRESETS[preset].accent]

applyThemePreset(current, preset) ==
  [current EXCEPT !.background = THEME_PRESETS[preset].background,
                  !.text = THEME_PRESETS[preset].text,
                  !.accent = THEME_PRESETS[preset].accent]

-----------------------------------------------------------------------------
(* JSON values, as JSON.parse yields them and JSON.stringify writes them *)

Infinity == 0 + 2000000000

IsFinite(x) == x \notin {NaN, Infinity, 0 - Infinity}

INVALID_JSON == [t |-> "invalid"]

JUndefined == [t |-> "undefined"]

JNull == [t |-> "null"]

JArr == [t |-> "array"]

JNum(n) == [t |-> "number", v |-> n]

JStr(s) == [t |-> "string", v |-> s]

JBool(b) == [t |-> "boolean", v |-> b]

JObj(f) == [t |-> "object", fields |-> f]

\* JSON.stringify of a number: a non-finite number is written as null.
JsonOfNumber(n) == IF IsFinite(n) THEN JNum(n) ELSE JNull

\* value.key on a value that isRecord accepted: an array or an object that lacks
\* the key reads as undefined (none of the keys read is on a prototype).
Get(value, key) ==
  IF value.t = "object" /\ key \in DOMAIN value.fields THEN value.fields[key] ELSE JUndefined

\* The property names every object literal inherits from Object.prototype: the
\* 'in' operator finds them as it finds own keys.
ObjectPrototypeKeys ==
  { "constructor", "toString", "toLocaleString", "valueOf", "hasOwnProperty",
    "isPrototypeOf", "propertyIsEnumerable", "__proto__", "__defineGetter__",
    "__defineSetter__", "__lookupGetter__", "__lookupSetter__" }

\* typeof value === 'string' && value in TABLE, TABLE an object literal with ownKeys.
IsStringIn(value, ownKeys) ==
  value.t = "string" /\ value.v \in (ownKeys \cup ObjectPrototypeKeys)

-----------------------------------------------------------------------------
(* Styleset serialization *)

HexDigits ==
  { "0", "1", "2", "3", "4", "5", "6", "7", "8", "9",
    "a", "b", "c", "d", "e", "f", "A", "B", "C", "D", "E", "F" }

\* The pattern without its i flag: upper-case digits are refused.
ColorHexPatternCaseSensitive(s) ==
  /\ Len(s) = 7
  /\ SubSeq(s, 1, 1) = "#"
  /\ \A i \in 2..7 : SubSeq(s, i, i) \in {"0", "1", "2", "3", "4", "5", "6", "7", "8", "9",
                                            "a", "b", "c", "d", "e", "f"}

\* COLOR_HEX_PATTERN = /^#[0-9a-f]{6}$/i  (.test on a string)
COLOR_HEX_PATTERN(s) ==
  /\ Len(s) = 7
  /\ SubSeq(s, 1, 1) = "#"
  /\ \A i \in 2..7 : SubSeq(s, i, i) \in HexDigits

isRecord(value) == value.t \in {"object", "array"}

isFiniteNumber(value) == value.t = "number" /\ IsFinite(value.v)

readString(value, fallback) == IF value.t = "string" THEN value.v ELSE fallback

readBoolean(value, fallback) == IF value.t = "boolean" THEN value.v ELSE fallback

readColor(value, fallback) ==
  IF value.t = "string" /\ COLOR_HEX_PATTERN(value.v) THEN value.v ELSE fallback

isPagePresetKey(value) == IsStringIn(value, DOMAIN PAGE_PRESETS)

isThemeSelection(value) ==
  (value.t = "string" /\ value.v = "custom") \/ IsStringIn(value, DOMAIN THEME_PRESETS)

isFontPresetKey(value) == IsStringIn(value, FONT_PRESETS)

isHeaderPosition(value) == IsStringIn(value, HEADER_POSITIONS)

isFooterPosition(value) == IsStringIn(value, FOOTER_POSITIONS)

isMarginBoxPosition(value) == IsStringIn(value, MarginBoxPositions)

\* PAGE_PRESETS[pagePreset].widthMm / .heightMm: a key isPagePresetKey let through
\* from Object.prototype names a function or an object without these fields, and
\* undefined turns into NaN in the arithmetic of the margin clamps.
PresetWidthMm(pagePreset) ==
  IF pagePreset \in DOMAIN PAGE_PRESETS THEN PAGE_PRESETS[pagePreset].widthMm ELSE NaN

PresetHeightMm(pagePreset) ==
  IF pagePreset \in DOMAIN PAGE_PRESETS THEN PAGE_PRESETS[pagePreset].heightMm ELSE NaN

clampHorizontalMarginMm(marginMm, pageWidthMm) ==
  clamp(marginMm, MIN_HORIZONTAL_MARGIN_MM,
        MathMax(MIN_HORIZONTAL_MARGIN_MM, HalfMinusInset(pageWidthMm)))

clampVerticalMarginMm(marginMm, pageHeightMm) ==
  clamp(marginMm, MIN_VERTICAL_MARGIN_MM,
        MathMax(MIN_VERTICAL_MARGIN_MM, HalfMinusInset(pageHeightMm)))

\* clampChromeFontSizePt that returns the size as it is.
clampChromeFontSizePtAsGiven(fontSizePt) == fontSizePt

clampChromeFontSizePt(fontSizePt) ==
  clamp(fontSizePt, MIN_CHROME_FONT_SIZE_PT, MAX_CHROME_FONT_SIZE_PT)

createStylesetState(themePreset, pagePreset, horizontalMarginMm, verticalMarginMm, style, pageChrome) ==
  [ version            |-> 1,
    themePreset        |-> themePreset,
    pagePreset         |-> pagePreset,
    horizontalMarginMm |-> horizontalMarginMm,
    verticalMarginMm   |-> verticalMarginMm,
    style              |-> style,
    pageChrome         |-> pageChrome ]

\* JSON.stringify(styleset, null, 2): every own field, by its type.
serializeStylesetState(styleset) ==
  JObj([ version            |-> JsonOfNumber(styleset.version * 1000),
         themePreset        |-> JStr(styleset.themePreset),
         pagePreset         |-> JStr(styleset.pagePreset),
         horizontalMarginMm |-> JsonOfNumber(styleset.horizontalMarginMm),
         verticalMarginMm   |-> JsonOfNumber(styleset.verticalMarginMm),
         style |-> JObj(
           [ fontFamily       |-> JStr(styleset.style.fontFamily),
             headingFamily    |-> JStr(styleset.style.headingFamily),
             bodyFontSize     |-> JsonOfNumber(styleset.style.bodyFontSize),
             headingBaseSize  |-> JsonOfNumber(styleset.style.headingBaseSize),
             lineHeight       |-> JsonOfNumber(styleset.style.lineHeight),
             paragraphSpacing |-> JsonOfNumber(styleset.style.paragraphSpacing),
             letterSpacing    |-> JsonOfNumber(styleset.style.letterSpacing),
             background       |-> JStr(styleset.style.background),
             text             |-> JStr(styleset.style.text),
             accent           |-> JStr(styleset.style.accent) ]),
         pageChrome |-> JObj(
           [ headerEnabled      |-> JBool(styleset.pageChrome.headerEnabled),
             headerText         |-> JStr(styleset.pageChrome.headerText),
             headerPosition     |-> JStr(styleset.pageChrome.headerPosition),
             headerFontSizePt   |-> JsonOfNumber(styleset.pageChrome.headerFontSizePt),
             footerEnabled      |-> JBool(styleset.pageChrome.footerEnabled),
             footerText         |-> JStr(styleset.pageChrome.footerText),
             footerPosition     |-> JStr(styleset.pageChrome.footerPosition),
             footerFontSizePt   |-> JsonOfNumber(styleset.pageChrome.footerFontSizePt),
             pageNumbersEnabled |-> JBool(styleset.pageChrome.pageNumbersEnabled),
             pageNumberPosition |-> JStr(styleset.pageChrome.pageNumberPosition) ]) ])

\* isFiniteNumber(value) ? value : fallback
NumberOr(value, fallback) == IF isFiniteNumber(value) THEN value.v ELSE fallback

\* the style: {...} block of parseStylesetState
ParseStyle(style) ==
  [ fontFamily       |-> IF isFontPresetKey(Get(style, "fontFamily"))
                         THEN Get(style, "fontFamily").v ELSE DEFAULT_STYLE.fontFamily,
    headingFamily    |-> IF isFontPresetKey(Get(style, "headingFamily"))
                         THEN Get(style, "headingFamily").v ELSE DEFAULT_STYLE.headingFamily,
    bodyFontSize     |-> clamp(NumberOr(Get(style, "bodyFontSize"), DEFAULT_STYLE.bodyFontSize),
                               13000, 24000),
    headingBaseSize  |-> clamp(NumberOr(Get(style, "headingBaseSize"), DEFAULT_STYLE.headingBaseSize),
                               18000, 36000),
    lineHeight       |-> clamp(NumberOr(Get(style, "lineHeight"), DEFAULT_STYLE.lineHeight),
                               1250, 2000),
    paragraphSpacing |-> clamp(NumberOr(Get(style, "paragraphSpacing"), DEFAULT_STYLE.paragraphSpacing),
                               700, 1700),
    letterSpacing    |-> clamp(NumberOr(Get(style, "letterSpacing"), DEFAULT_STYLE.letterSpacing),
                               0 - 20, 80),
    background       |-> readColor(Get(style, "background"), DEFAULT_STYLE.background),
    text             |-> readColor(Get(style, "text"), DEFAULT_STYLE.text),
    accent           |-> readColor(Get(style, "accent"), DEFAULT_STYLE.accent) ]

\* the pageChrome: {...} block of parseStylesetState
ParsePageChrome(pageChrome) ==
  [ headerEnabled      |-> readBoolean(Get(pageChrome, "headerEnabled"),
                                       DEFAULT_PAGE_CHROME.headerEnabled),
    headerText         |-> readString(Get(pageChrome, "headerText"), DEFAULT_PAGE_CHROME.headerText),
    headerPosition     |-> IF isHeaderPosition(Get(pageChrome, "headerPosition"))
                           THEN Get(pageChrome, "headerPosition").v
                           ELSE DEFAULT_PAGE_CHROME.headerPosition,
    headerFontSizePt   |-> clampChromeFontSizePt(
                             NumberOr(Get(pageChrome, "headerFontSizePt"),
                                      DEFAULT_PAGE_CHROME.headerFontSizePt)),
    footerEnabled      |-> readBoolean(Get(pageChrome, "footerEnabled"),
                                       DEFAULT_PAGE_CHROME.footerEnabled),
    footerText         |-> readString(Get(pageChrome, "footerText"), DEFAULT_PAGE_CHROME.footerText),
    footerPosition     |-> IF isFooterPosition(Get(pageChrome, "footerPosition"))
                           THEN Get(pageChrome, "footerPosition").v
                           ELSE DEFAULT_PAGE_CHROME.footerPosition,
    footerFontSizePt   |-> clampChromeFontSizePt(
                             NumberOr(Get(pageChrome, "footerFontSizePt"),
                                      DEFAULT_PAGE_CHROME.footerFontSizePt)),
    pageNumbersEnabled |-> readBoolean(Get(pageChrome, "pageNumbersEnabled"),
                                       DEFAULT_PAGE_CHROME.pageNumbersEnabled),
    pageNumberPosition |-> IF isMarginBoxPosition(Get(pageChrome, "pageNumberPosition"))
                           THEN Get(pageChrome, "pageNumberPosition").v
                           ELSE DEFAULT_PAGE_CHROME.pageNumberPosition ]

\* parsed.version === 1, written loosely (==): "1" and true pass as well.
VersionIsOneLoosely(version) ==
  \/ version.t = "number" /\ version.v = 1000
  \/ version.t = "string" /\ version.v = "1"
  \/ version.t = "boolean" /\ version.v

\* parsed.version === 1 (the negation of parsed.version !== 1)
VersionIsOne(version) == version.t = "number" /\ version.v = 1000

Threw(message) == [threw |-> TRUE, error |-> message]

Returned(value) == [threw |-> FALSE, value |-> value]

\* parseStylesetState(input): Threw(..) where the code throws, else Returned(styleset).
parseStylesetState(input) ==
  IF input.t = "invalid" THEN Threw("SyntaxError")
  ELSE LET parsed == input IN
    IF ~isRecord(parsed) \/ ~VersionIsOne(Get(parsed, "version"))
    THEN Threw("Unsupported styleset file.")
    ELSE
      LET style      == IF isRecord(Get(parsed, "style")) THEN Get(parsed, "style") ELSE JObj(<<>>)
          pageChrome == IF isRecord(Get(parsed, "pageChrome"))
                        THEN Get(parsed, "pageChrome") ELSE JObj(<<>>)
          pagePreset == IF isPagePresetKey(Get(parsed, "pagePreset"))
                        THEN Get(parsed, "pagePreset").v ELSE DEFAULT_PAGE_PRESET
      IN Returned(createStylesetState(
           IF isThemeSelection(Get(parsed, "themePreset"))
           THEN Get(parsed, "themePreset").v ELSE DEFAULT_THEME_PRESET,
           pagePreset,
           clampHorizontalMarginMm(
             NumberOr(Get(parsed, "horizontalMarginMm"),
                      NumberOr(Get(parsed, "marginMm"), DEFAULT_HORIZONTAL_MARGIN_MM)),
             PresetWidthMm(pagePreset)),
           clampVerticalMarginMm(
             NumberOr(Get(parsed, "verticalMarginMm"),
                      NumberOr(Get(parsed, "marginMm"), DEFAULT_VERTICAL_MARGIN_MM)),
             PresetHeightMm(pagePreset)),
           ParseStyle(style),
           ParsePageChrome(pageChrome)))

-----------------------------------------------------------------------------
(* The stylesets exported and the styleset files imported *)

NoStyleset == [version |-> 0]

NoText == [t |-> "none"]

NoResult == [threw |-> FALSE, pending |-> TRUE]

\* One field of a style changed: legal values (the ends and the inside of each
\* range, lower- and upper-case colours) and values outside the legal domain.
StyleVariants(style) ==
  {style}
  \cup {[style EXCEPT !.fontFamily = v] : v \in {"space", "source", "comic"}}
  \cup {[style EXCEPT !.headingFamily = v] : v \in {"playfair", "constructor"}}
  \cup {[style EXCEPT !.bodyFontSize = v] : v \in {13000, 21000, 24000, 12999, 999000}}
  \cup {[style EXCEPT !.headingBaseSize = v] : v \in {18000, 30000, 36000, 17000, 36001}}
  \cup {[style EXCEPT !.lineHeight = v] : v \in {1250, 1900, 2000, 1249, 2500}}
  \cup {[style EXCEPT !.paragraphSpacing = v] : v \in {700, 1350, 1700, 0, 1701}}
  \cup {[style EXCEPT !.letterSpacing = v] : v \in {0 - 20, 15, 80, 0 - 21, 81}}
  \cup {[style EXCEPT !.background = v] : v \in {"#191613", "#F7F1E3", "red", "#ffff"}}
  \cup {[style EXCEPT !.text = v] : v \in {"#f5eadc", "#1F2329", "#gggggg"}}
  \cup {[style EXCEPT !.accent = v] : v \in {"#f2a65a", "#C97342", "f2a65a0"}}

ChromeVariants(chrome) ==
  {chrome}
  \cup {[chrome EXCEPT !.headerEnabled = TRUE, !.headerText = v] : v \in {"Draft", " a\"b\\c\n"}}
  \cup {[chrome EXCEPT !.headerPosition = v] : v \in {"top-left", "top-right", "bottom-left"}}
  \cup {[chrome EXCEPT !.headerFontSizePt = v] : v \in {7000, 12000, 16000, 6999, 16001}}
  \cup {[chrome EXCEPT !.footerEnabled = TRUE, !.footerText = v] : v \in {"Internal Use", ""}}
  \cup {[chrome EXCEPT !.footerPosition = v] : v \in {"bottom-left", "bottom-right", "top-center"}}
  \cup {[chrome EXCEPT !.footerFontSizePt = v] : v \in {7000, 8000, 16000, 0, 17000}}
  \cup {[chrome EXCEPT !.pageNumbersEnabled = FALSE]}
  \cup {[chrome EXCEPT !.pageNumberPosition = v] : v \in {"top-left", "bottom-center", "middle"}}

\* Horizontal and vertical margins for a page preset: the ends of the clamp
\* range, values inside it, and values beyond it.
MarginPairs(pagePreset) ==
  LET w == PAGE_PRESETS[pagePreset].widthMm
      h == PAGE_PRESETS[pagePreset].heightMm
  IN { <<0, 8000>>, <<16000, 16000>>, <<24000, 24000>>,
       <<(w \div 2) - 12000, (h \div 2) - 12000>>,
       <<(w \div 2) - 11999, 16000>>, <<16000, 7999>>, <<0 - 1, (h \div 2) - 11999>> }

ExportStates ==
  { createStylesetState(theme, pagePreset, m[1], m[2], style, chrome) :
      theme \in {"custom", "noir", "sepia"},
      pagePreset \in DOMAIN PAGE_PRESETS,
      m \in UNION {MarginPairs(p) : p \in DOMAIN PAGE_PRESETS},
      style \in StyleVariants(DEFAULT_STYLE),
      chrome \in ChromeVariants(DEFAULT_PAGE_CHROME) }

\* obj with obj[key] = value; an undefined value leaves the key out.
WithField(obj, key, value) ==
  IF value.t = "undefined"
  THEN JObj([k \in (DOMAIN obj.fields) \ {key} |-> obj.fields[k]])
  ELSE JObj((key :> value) @@ obj.fields)

\* Values a hand-edited file may carry in place of a field: absent, of another
\* type, outside the range, not finite (1e999), a name found on Object.prototype.
OddValues ==
  { JUndefined, JNull, JArr, JObj(<<>>), JBool(TRUE), JBool(FALSE),
    JStr(""), JStr("x"), JStr("constructor"), JStr("__proto__"), JStr("custom"),
    JStr("#ABCDEF"), JStr("top-left"), JStr("bottom-left"), JStr("legal"),
    JNum(999000), JNum(0 - 5000), JNum(13500), JNum(20000), JNum(1000), JNum(0),
    JNum(Infinity), JNum(0 - Infinity) }

DefaultFile ==
  serializeStylesetState(
    createStylesetState(DEFAULT_THEME_PRESET, DEFAULT_PAGE_PRESET,
                        DEFAULT_HORIZONTAL_MARGIN_MM, DEFAULT_VERTICAL_MARGIN_MM,
                        DEFAULT_STYLE, DEFAULT_PAGE_CHROME))

\* Files that differ from the default styleset in one place.
OneFieldFiles ==
  {WithField(DefaultFile, k, v) : k \in (DOMAIN DefaultFile.fields) \cup {"marginMm"}, v \in OddValues}
  \cup {WithField(DefaultFile, "style", WithField(DefaultFile.fields.style, k, v)) :
          k \in DOMAIN DefaultFile.fields.style.fields, v \in OddValues}
  \cup {WithField(DefaultFile, "pageChrome", WithField(DefaultFile.fields.pageChrome, k, v)) :
          k \in DOMAIN DefaultFile.fields.pageChrome.fields, v \in OddValues}

\* Files of the older format (one marginMm), and files whose page preset and
\* margins are both unusual.
MarginFiles ==
  { WithField(WithField(WithField(WithField(DefaultFile,
      "pagePreset", p), "horizontalMarginMm", hm), "verticalMarginMm", vm), "marginMm", mm) :
      p  \in {JStr("a4"), JStr("legal"), JStr("toString"), JStr("tabloid")},
      hm \in {JUndefined, JNum(0 - 5000), JNum(95950), JNum(999000)},
      vm \in {JUndefined, JNum(0), JNum(165800), JStr("16")},
      mm \in {JUndefined, JNum(24000), JNum(500000), JNull} }

\* Texts that are no JSON, and JSON texts whose top-level value is no styleset.
TopLevelFiles ==
  { INVALID_JSON, JNull, JArr, JNum(1000), JStr("version"), JBool(TRUE), JObj(<<>>),
    JObj([version |-> JNum(2000)]), JObj([version |-> JNum(1000)]),
    JObj([style |-> DefaultFile.fields.style]) }

ImportTexts == OneFieldFiles \cup MarginFiles \cup TopLevelFiles

-----------------------------------------------------------------------------
(* Styleset export and import as steps *)

NoStyle == [fontFamily |-> ""]

StylesetIdle ==
  ssPc = "idle" /\ ssState = NoStyleset /\ ssText = NoText /\ ssParsed = NoResult

ThemeIdle == themeCurrent = NoStyle /\ themeKey = "" /\ themeNext = NoStyle

NoPlan == [offsetsYMm |-> <<>>]

NoPlanInput == [canvasWidthPx |-> 0]

PlanIdle ==
  planPc = "idle" /\ planInput = NoPlanInput /\ plan = NoPlan /\ heightLeft = 0 /\ pdfPages = <<>>

NoCssInput == [pagePreset |-> ""]

CssIdle == cssInput = NoCssInput /\ css = ""

NoEdit == [action |-> "", markdown |-> "", selectionStart |-> 0, selectionEnd |-> 0, count |-> 0]

EditIdle ==
  textarea = [value |-> "", selectionStart |-> 0, selectionEnd |-> 0] /\ lastEdit = NoEdit

RenderIdle == renderPc = "idle" /\ renderMarkdown = "" /\ renderedMarkdown = ""

NoTimer == [draftValue |-> "", commitGeneration |-> 0 - 1]

NoOp == [op |-> ""]

NoSettled == [themeSelection |-> ""]

SettingsIdle ==
  /\ styleState = NoStyle /\ styleStateRef = "" /\ themeSelection = "" /\ pagePresetKey = ""
  /\ marginsMm = <<>> /\ chromeState = NoStyle /\ chromeStateRef = "" /\ stylesetNotice = ""
  /\ paletteCommitGenerationRef = 0 /\ commitGeneration = 0
  /\ draftValue = <<>> /\ pendingCommitRef = <<>>
  /\ importFile = NoText /\ settingsOps = 0 /\ lastOp = NoOp
  /\ settled = NoSettled /\ inputSince = FALSE

NoPrint == [invoked |-> FALSE]

PreviewIdle ==
  /\ renderInputs = 0 /\ previewRequests = <<>> /\ isPaginating = FALSE /\ paginationError = ""
  /\ pageCount = 0 /\ previewerRef = 0 /\ containerFrom = 0 /\ pageCountFrom = 0
  /\ unhandledErrors = 0 /\ lastPrint = NoPrint /\ mounted = FALSE

SplitIdle == splitRatio = <<0, 0>> /\ isResizing = FALSE /\ leftRun = 0 /\ splitHistory = <<>>

NoKeyResult == [called |-> FALSE]

StyleKeyIdle == styleKey = "" /\ selectionBefore = "" /\ styleKeyResult = NoKeyResult

\* Every part of the program but the named one is at rest.
IdleExcept(part) ==
  /\ part = "styleset" \/ StylesetIdle
  /\ part = "theme" \/ ThemeIdle
  /\ part = "plan" \/ PlanIdle
  /\ part = "css" \/ CssIdle
  /\ part = "edit" \/ EditIdle
  /\ part = "render" \/ RenderIdle
  /\ part = "settings" \/ SettingsIdle
  /\ part = "preview" \/ PreviewIdle
  /\ part = "split" \/ SplitIdle
  /\ part = "stylekey" \/ StyleKeyIdle

InitStyleset ==
  /\ \/ /\ ssPc = "export"
        /\ ssState \in ExportStates
        /\ ssText = NoText
        /\ ssParsed = NoResult
     \/ /\ ssPc = "file"
        /\ ssState = NoStyleset
        /\ ssText \in ImportTexts
        /\ ssParsed = NoResult
  /\ IdleExcept("styleset")

\* handleExportStyleset: the file holds serializeStylesetState(styleset).
ExportStyleset ==
  /\ ssPc = "export"
  /\ ssText' = serializeStylesetState(ssState)
  /\ ssPc' = "file"
  /\ UNCHANGED <<ssState, ssParsed, notStyleset>>

\* handleImportStyleset: parseStylesetState(await file.text()).
ImportStyleset ==
  /\ ssPc = "file"
  /\ ssParsed' = parseStylesetState(ssText)
  /\ ssPc' = "parsed"
  /\ UNCHANGED <<ssState, ssText, notStyleset>>

NextStyleset == ExportStyleset \/ ImportStyleset

SpecStyleset == InitStyleset /\ [][NextStyleset]_vars

-----------------------------------------------------------------------------
(* Claims on styleset serialization *)

InRange(x, lo, hi) == lo <= x /\ x <= hi

IsSixHexColour(s) ==
  /\ Len(s) = 7
  /\ SubSeq(s, 1, 1) = "#"
  /\ \A i \in 2..7 :
       SubSeq(s, i, i) \in {"0", "1", "2", "3", "4", "5", "6", "7", "8", "9", "a", "b",
                            "c", "d", "e", "f", "A", "B", "C", "D", "E", "F"}

LargerOf(a, b) == IF a >= b THEN a ELSE b

\* Every field of styleset s is inside its legal domain.
Legal(s) ==
  /\ s.themePreset \in {"custom", "classic", "warm", "slate", "forest", "noir"}
  /\ s.pagePreset \in {"a4", "letter", "legal"}
  /\ InRange(s.horizontalMarginMm, 0,
             LargerOf(0, (PAGE_PRESETS[s.pagePreset].widthMm \div 2) - 12000))
  /\ InRange(s.verticalMarginMm, 8000,
             LargerOf(8000, (PAGE_PRESETS[s.pagePreset].heightMm \div 2) - 12000))
  /\ s.style.fontFamily \in FONT_PRESETS
  /\ s.style.headingFamily \in FONT_PRESETS
  /\ InRange(s.style.bodyFontSize, 13000, 24000)
  /\ InRange(s.style.headingBaseSize, 18000, 36000)
  /\ InRange(s.style.lineHeight, 1250, 2000)
  /\ InRange(s.style.paragraphSpacing, 700, 1700)
  /\ InRange(s.style.letterSpacing, 0 - 20, 80)
  /\ IsSixHexColour(s.style.background)
  /\ IsSixHexColour(s.style.text)
  /\ IsSixHexColour(s.style.accent)
  /\ s.pageChrome.headerPosition \in {"top-left", "top-center", "top-right"}
  /\ s.pageChrome.footerPosition \in {"bottom-left", "bottom-center", "bottom-right"}
  /\ s.pageChrome.pageNumberPosition \in MarginBoxPositions
  /\ InRange(s.pageChrome.headerFontSizePt, 7000, 16000)
  /\ InRange(s.pageChrome.footerFontSizePt, 7000, 16000)

Exported == ssPc = "parsed" /\ ssState.version = 1

\* C1: a styleset whose fields are all inside their legal domains comes back
\* from serializeStylesetState followed by parseStylesetState equal to itself,
\* field for field, version = 1 included.
C1_RoundTrip ==
  (Exported /\ Legal(ssState)) =>
    (~ssParsed.threw /\ ssParsed.value = ssState /\ ssParsed.value.version = 1)

C1_Witness ==
  /\ Exported
  /\ Legal(ssState)
  /\ ssState.themePreset = "noir"
  /\ ssState.pagePreset = "legal"
  /\ ssState.horizontalMarginMm = 0
  /\ ssState.style.background = "#F7F1E3"
  /\ ssState.pageChrome.headerText = "Draft"
  /\ ssParsed.value = ssState

\* The top-level JSON value is an object whose version is the number 1.
CarriesVersionOne(text) ==
  /\ text.t = "object"
  /\ "version" \in DOMAIN text.fields
  /\ text.fields.version.t = "number"
  /\ text.fields.version.v = 1000

StylesetFields ==
  { "version", "themePreset", "pagePreset", "horizontalMarginMm", "verticalMarginMm",
    "style", "pageChrome" }

\* C2: parseStylesetState throws exactly when the text is no JSON or its
\* top-level value does not carry version = 1 ({"version":2} raises
\* 'Unsupported styleset file.'); on every other text, whatever the nested
\* values are, it returns a styleset.
C2_ThrowsOnlyAtTheGate ==
  ssPc = "parsed" =>
    /\ ssParsed.threw <=> (ssText.t = "invalid" \/ ~CarriesVersionOne(ssText))
    /\ (ssText.t = "object" /\ DOMAIN ssText.fields = {"version"}
          /\ ssText.fields.version.t = "number" /\ ssText.fields.version.v = 2000)
         => (ssParsed.threw /\ ssParsed.error = "Unsupported styleset file.")
    /\ ~ssParsed.threw =>
         /\ DOMAIN ssParsed.value = StylesetFields
         /\ ssParsed.value.version = 1
         /\ DOMAIN ssParsed.value.style = DOMAIN DEFAULT_STYLE
         /\ DOMAIN ssParsed.value.pageChrome = DOMAIN DEFAULT_PAGE_CHROME

C2_Witness ==
  /\ ssPc = "parsed"
  /\ CarriesVersionOne(ssText)
  /\ "style" \in DOMAIN ssText.fields
  /\ ssText.fields.style.t = "array"
  /\ ~ssParsed.threw
  /\ ssParsed.value.style = DEFAULT_STYLE

\* The value the imported file gives a field of its style / pageChrome object.
FileField(group, key) ==
  IF group \in DOMAIN ssText.fields /\ ssText.fields[group].t = "object"
       /\ key \in DOMAIN ssText.fields[group].fields
  THEN ssText.fields[group].fields[key]
  ELSE [t |-> "undefined"]

FiniteNumberInFile(group, key) ==
  /\ FileField(group, key).t = "number"
  /\ FileField(group, key).v \notin {NaN, Infinity, 0 - Infinity}

Imported == ssPc = "parsed" /\ ssState.version = 0 /\ CarriesVersionOne(ssText)

NearestInRange(x, lo, hi) == IF x < lo THEN lo ELSE IF x > hi THEN hi ELSE x

\* What the import gives a numeric field: a finite number of the file pulled to
\* the nearest end of [lo, hi], and the default when the file has none.
ClampedOrDefault(group, key, got, lo, hi, default) ==
  IF FiniteNumberInFile(group, key)
  THEN got = NearestInRange(FileField(group, key).v, lo, hi)
  ELSE got = default

-----------------------------------------------------------------------------
(* applyThemePreset on the styles the controls can hold *)

\* Styles that differ from DEFAULT_STYLE in up to two fields.
ThemeInputs == UNION {StyleVariants(s) : s \in StyleVariants(DEFAULT_STYLE)}

InitTheme ==
  /\ themeCurrent \in ThemeInputs
  /\ themeKey = ""
  /\ themeNext = NoStyle
  /\ IdleExcept("theme")

\* handleThemePresetSelect's setStyleState((current) => applyThemePreset(current, preset))
ApplyThemePreset(preset) ==
  /\ themeKey = ""
  /\ themeKey' = preset
  /\ themeNext' = applyThemePreset(themeCurrent, preset)
  /\ UNCHANGED <<themeCurrent, notTheme>>

NextTheme == \E preset \in DOMAIN THEME_PRESETS : ApplyThemePreset(preset)

SpecTheme == InitTheme /\ [][NextTheme]_vars

TypographyKeys ==
  { "fontFamily", "headingFamily", "bodyFontSize", "headingBaseSize", "lineHeight",
    "paragraphSpacing", "letterSpacing" }

\* C4: applyThemePreset(v, p) returns a state whose background, text and accent
\* are exactly THEME_PRESETS[p]'s and whose every other field is v's; the call
\* leaves v as it was.
C4_ThemeOverwritesOnlyPalette ==
  /\ [](themeKey # "" =>
         /\ themeNext.background = THEME_PRESETS[themeKey].background
         /\ themeNext.text = THEME_PRESETS[themeKey].text
         /\ themeNext.accent = THEME_PRESETS[themeKey].accent
         /\ DOMAIN themeNext = TypographyKeys \cup {"background", "text", "accent"}
         /\ \A k \in TypographyKeys : themeNext[k] = themeCurrent[k])
  /\ [][themeCurrent' = themeCurrent]_vars

C4_Witness ==
  /\ themeKey = "noir"
  /\ themeCurrent.bodyFontSize = 21000
  /\ themeCurrent.lineHeight = 1900
  /\ themeCurrent.background = "#ffffff"
  /\ themeNext.bodyFontSize = 21000
  /\ themeNext.lineHeight = 1900
  /\ themeNext.background = "#191613"
  /\ themeNext.text = "#f5eadc"
  /\ themeNext.accent = "#f2a65a"

-----------------------------------------------------------------------------
(* The PDF image-slicing planner.                                          *)
(* buildPdfImagePlan is imported by App.tsx from lib/editor, and the       *)
(* variant of lib/editor that defines it is not among the sources: it is   *)
(* modelled from section 4.4 of the specification (the margin clamp from   *)
(* the shared-margin rule of section 4.3).  renderedHeightMm is a quotient *)
(* by canvasWidthPx; renderedHeightMm, heightLeft and the offsets are kept *)
(* multiplied by canvasWidthPx (PerPx), which keeps them exact.            *)

MaxPagesTall == 3

\* No plan of the model has more pages than this: the loop is cut off there.
MaxPlanPages == 12

\* A quantity in millimetres, in the unit of renderedHeightMm (millimetres
\* themselves when there is no width to divide by).
PerPx(mm) == mm * (IF planInput.canvasWidthPx > 0 THEN planInput.canvasWidthPx ELSE 1)

\* one shared margin, at least 8 and at most max(8, min(width, height) / 2 - 12)
SafeMarginMm(marginMm, pageWidthMm, pageHeightMm) ==
  clamp(marginMm, 8000, MathMax(8000, HalfMinusInset(MathMin(pageWidthMm, pageHeightMm))))

\* A planner without the fallback for degenerate input.
DegenerateNever(canvasWidthPx, printableWidthMm, printableHeightMm) == FALSE

\* Arithmetic degeneracy (section 7 (d)): a canvas without width, or a page
\* that leaves no printable width or height; the plan is then the fallback, a
\* single page of rendered height 0.
Degenerate(canvasWidthPx, printableWidthMm, printableHeightMm) ==
  canvasWidthPx <= 0 \/ printableWidthMm <= 0 \/ printableHeightMm <= 0

\* canvasHeightPx x printableWidthMm / canvasWidthPx, kept multiplied by
\* canvasWidthPx; by a width of 0 the quotient is NaN or infinite.
RenderedHeightMm(canvasHeightPx, printableWidthMm, canvasWidthPx) ==
  IF canvasWidthPx # 0 THEN canvasHeightPx * printableWidthMm
  ELSE IF canvasHeightPx * printableWidthMm = 0 THEN NaN
  ELSE IF canvasHeightPx * printableWidthMm > 0 THEN Infinity ELSE 0 - Infinity

\* a - b on numbers that may be NaN or infinite
Minus(a, b) == IF IsFinite(a) THEN a - b ELSE a

\* The offset of the next page without the margin added back.
NextOffsetWithoutMargin(left, renderedHeightMm, safeMarginMm) == left - renderedHeightMm

\* each subsequent page's offset: previousRemainingHeight - renderedHeightMm + margin
NextOffsetYMm(left, renderedHeightMm, safeMarginMm) == left - renderedHeightMm + safeMarginMm

\* The loop test that also holds at 0: a page is added for nothing left to show.
PlanContinuesAtZero(left) == left >= 0

\* continue while the height left to show is positive
PlanContinues(left) == left > 0

PlanInputs ==
  [ canvasWidthPx  : {186, 1000},
    canvasHeightPx : {n * 273 + d : n \in 1..MaxPagesTall, d \in {0, 1}} \cup {1, 100, 3000},
    pageWidthMm    : {210000},
    pageHeightMm   : {297000},
    marginMm       : {0, 12000, 20000, 500000} ]
  \cup
  [ canvasWidthPx  : {1919, 1000},
    canvasHeightPx : {n * 2554 + d : n \in 1..(MaxPagesTall - 1), d \in {0, 1}} \cup {640},
    pageWidthMm    : {215900},
    pageHeightMm   : {279400},
    marginMm       : {12000} ]

InitPlan ==
  /\ planPc = "start"
  /\ planInput \in PlanInputs
  /\ plan = NoPlan
  /\ heightLeft = 0
  /\ pdfPages = <<>>
  /\ IdleExcept("plan")

\* buildPdfImagePlan up to its loop: the printable box, the rendered height of
\* the image scaled to the printable width, the first offset (the margin).
PlanStart ==
  /\ planPc = "start"
  /\ LET safeMarginMm      == SafeMarginMm(planInput.marginMm, planInput.pageWidthMm,
                                           planInput.pageHeightMm)
         printableWidthMm  == planInput.pageWidthMm - safeMarginMm * 2
         printableHeightMm == planInput.pageHeightMm - safeMarginMm * 2
         degenerate        == Degenerate(planInput.canvasWidthPx, printableWidthMm,
                                         printableHeightMm)
         renderedHeightMm  == IF degenerate THEN 0
                              ELSE RenderedHeightMm(planInput.canvasHeightPx, printableWidthMm,
                                                    planInput.canvasWidthPx)
     IN /\ plan' = [ safeMarginMm      |-> safeMarginMm,
                     printableWidthMm  |-> printableWidthMm,
                     printableHeightMm |-> printableHeightMm,
                     renderedHeightMm  |-> renderedHeightMm,
                     offsetsYMm        |-> <<PerPx(safeMarginMm)>> ]
        /\ heightLeft' = IF degenerate THEN 0
                         ELSE Minus(renderedHeightMm, PerPx(printableHeightMm))
  /\ planPc' = "loop"
  /\ UNCHANGED <<planInput, pdfPages, notPlan>>

\* One turn of the loop: the next page's offset is
\* heightLeft - renderedHeightMm + margin, and a page's height is taken off.
PlanLoop ==
  /\ planPc = "loop"
  /\ PlanContinues(heightLeft)
  /\ Len(plan.offsetsYMm) < MaxPlanPages
  /\ plan' = [plan EXCEPT !.offsetsYMm =
                Append(@, NextOffsetYMm(heightLeft, plan.renderedHeightMm,
                                        PerPx(plan.safeMarginMm)))]
  /\ heightLeft' = Minus(heightLeft, PerPx(plan.printableHeightMm))
  /\ UNCHANGED <<planPc, planInput, pdfPages, notPlan>>

\* The loop ends and the plan is returned.
PlanReturn ==
  /\ planPc = "loop"
  /\ ~PlanContinues(heightLeft)
  /\ planPc' = "planned"
  /\ UNCHANGED <<planInput, plan, heightLeft, pdfPages, notPlan>>

\* handleDownloadPdf: plan.offsetsYMm.forEach: a page per offset (addPage for
\* all but the first), the whole image placed on it at (safeMarginMm, offsetY).
DownloadPdfPages ==
  /\ planPc = "planned"
  /\ pdfPages' = [ index \in 1..Len(plan.offsetsYMm) |->
                     [ x      |-> plan.safeMarginMm,
                       y      |-> plan.offsetsYMm[index],
                       width  |-> plan.printableWidthMm,
                       height |-> plan.renderedHeightMm ] ]
  /\ planPc' = "saved"
  /\ UNCHANGED <<planInput, plan, heightLeft, notPlan>>

NextPlan == PlanStart \/ PlanLoop \/ PlanReturn \/ DownloadPdfPages

SpecPlan == InitPlan /\ [][NextPlan]_vars

\* Degenerate inputs next to sound ones: a canvas without width or height, a
\* page of size zero or too small for its margins.
DegeneratePlanInputs ==
  [ canvasWidthPx  : {0, 1000},
    canvasHeightPx : {0, 100, 3000},
    pageWidthMm    : {0, 16000, 210000},
    pageHeightMm   : {0, 16000, 297000},
    marginMm       : {0, 12000} ]

InitDegeneratePlan ==
  /\ planPc = "start"
  /\ planInput \in DegeneratePlanInputs
  /\ plan = NoPlan
  /\ heightLeft = 0
  /\ pdfPages = <<>>
  /\ IdleExcept("plan")

SpecDegeneratePlan == InitDegeneratePlan /\ [][NextPlan]_vars

Planned == planPc \in {"planned", "saved"}

TestPlanInput ==
  [ canvasWidthPx |-> 1000, canvasHeightPx |-> 3000, pageWidthMm |-> 210000,
    pageHeightMm |-> 297000, marginMm |-> 12000 ]

\* C5: for positive canvas and page dimensions the plan has
\* printableWidthMm = pageWidthMm - 2 safeMarginMm,
\* printableHeightMm = pageHeightMm - 2 safeMarginMm,
\* renderedHeightMm = canvasHeightPx printableWidthMm / canvasWidthPx, its first
\* offset is the margin and its k-th offset (from 0) is margin - k printableHeightMm;
\* (1000, 3000, 210, 297, 12) gives 186, 273, 558 and [12, -261, -534].
C5_PlanGeometry ==
  Planned =>
    /\ plan.printableWidthMm = planInput.pageWidthMm - 2 * plan.safeMarginMm
    /\ plan.printableHeightMm = planInput.pageHeightMm - 2 * plan.safeMarginMm
    /\ plan.renderedHeightMm = planInput.canvasHeightPx * plan.printableWidthMm
    /\ plan.offsetsYMm[1] = plan.safeMarginMm * planInput.canvasWidthPx
    /\ \A k \in 0..(Len(plan.offsetsYMm) - 1) :
         plan.offsetsYMm[k + 1] =
           (plan.safeMarginMm - k * plan.printableHeightMm) * planInput.canvasWidthPx
    /\ planInput = TestPlanInput =>
         /\ plan.safeMarginMm = 12000
         /\ plan.printableWidthMm = 186000
         /\ plan.printableHeightMm = 273000
         /\ plan.renderedHeightMm = 558000 * 1000
         /\ plan.offsetsYMm = <<12000 * 1000, (0 - 261000) * 1000, (0 - 534000) * 1000>>

C5_Witness ==
  /\ planPc = "planned"
  /\ planInput = TestPlanInput
  /\ Len(plan.offsetsYMm) = 3
  /\ plan.offsetsYMm[3] = (0 - 534000) * 1000

\* C6: the plan has at least one offset and finitely many: exactly N when
\* renderedHeightMm is N printableHeightMm (N >= 1), exactly N + 1 when it
\* exceeds N printableHeightMm by a positive remainder; the PDF gets one page
\* per offset.
C6_PageCount ==
  LET pageHeight == plan.printableHeightMm * planInput.canvasWidthPx
      n          == plan.renderedHeightMm \div pageHeight
      remainder  == plan.renderedHeightMm % pageHeight
  IN /\ planPc \in {"loop", "planned", "saved"} =>
          /\ Len(plan.offsetsYMm) >= 1
          /\ Len(plan.offsetsYMm) <= n + 1
     /\ Planned =>
          /\ (remainder = 0 /\ n >= 1) => Len(plan.offsetsYMm) = n
          /\ remainder > 0 => Len(plan.offsetsYMm) = n + 1
     /\ planPc = "saved" => Len(pdfPages) = Len(plan.offsetsYMm)

C6_Witness ==
  /\ planPc = "saved"
  /\ plan.renderedHeightMm = 2 * plan.printableHeightMm * planInput.canvasWidthPx
  /\ Len(plan.offsetsYMm) = 2
  /\ Len(pdfPages) = 2

-----------------------------------------------------------------------------
(* The CSS layout compiler *)

Digit(d) == SubSeq("0123456789", d + 1, d + 1)

RECURSIVE NatToStr(_)
\* String(n) of a count n >= 0
NatToStr(n) == IF n < 10 THEN Digit(n) ELSE NatToStr(n \div 10) \o Digit(n % 10)

\* The template text of a number kept in thousandths: 12000 is "12", 9500 is "9.5",
\* 215900 is "215.9", NaN is "NaN".
FormatNumber(x) ==
  IF IsNaN(x) THEN "NaN"
  ELSE LET a  == IF x < 0 THEN 0 - x ELSE x
           f  == a % 1000
           d1 == Digit(f \div 100)
           d2 == Digit((f \div 10) % 10)
           d3 == Digit(f % 10)
           fraction == IF f = 0 THEN ""
                       ELSE IF f % 100 = 0 THEN "." \o d1
                       ELSE IF f % 10 = 0 THEN "." \o d1 \o d2
                       ELSE "." \o d1 \o d2 \o d3
       IN (IF x < 0 THEN "-" ELSE "") \o NatToStr(a \div 1000) \o fraction

WhiteSpace == {" ", "\n", "\r", "\t"}

RECURSIVE TrimStart(_)
TrimStart(s) ==
  IF s # "" /\ SubSeq(s, 1, 1) \in WhiteSpace THEN TrimStart(SubSeq(s, 2, Len(s))) ELSE s

RECURSIVE TrimEnd(_)
TrimEnd(s) ==
  IF s # "" /\ SubSeq(s, Len(s), Len(s)) \in WhiteSpace
  THEN TrimEnd(SubSeq(s, 1, Len(s) - 1)) ELSE s

\* String.prototype.trim
Trim(s) == TrimEnd(TrimStart(s))

RECURSIVE ReplaceAll(_, _, _)
\* value.replace(/c/g, by) for a one-character pattern c
ReplaceAll(s, c, by) ==
  IF s = "" THEN ""
  ELSE (IF SubSeq(s, 1, 1) = c THEN by ELSE SubSeq(s, 1, 1))
         \o ReplaceAll(SubSeq(s, 2, Len(s)), c, by)

RECURSIVE ReplaceNewlines(_, _)
\* value.replace(/\r?\n/g, by)
ReplaceNewlines(s, by) ==
  IF s = "" THEN ""
  ELSE IF Len(s) >= 2 /\ SubSeq(s, 1, 2) = "\r\n"
       THEN by \o ReplaceNewlines(SubSeq(s, 3, Len(s)), by)
  ELSE IF SubSeq(s, 1, 1) = "\n"
       THEN by \o ReplaceNewlines(SubSeq(s, 2, Len(s)), by)
  ELSE SubSeq(s, 1, 1) \o ReplaceNewlines(SubSeq(s, 2, Len(s)), by)

\* escapeCssContent that quotes the text as it is.
escapeCssContentUnescaped(value) == "\"" \o value \o "\""

escapeCssContent(value) ==
  "\"" \o ReplaceNewlines(ReplaceAll(ReplaceAll(value, "\\", "\\\\"), "\"", "\\\""), "\\A ")
       \o "\""

RECURSIVE serializeMarginContentFrom(_, _)
\* the reduce of serializeMarginContent, from its index-th part on
serializeMarginContentFrom(parts, index) ==
  IF index > Len(parts) THEN ""
  ELSE (IF index = 1 THEN parts[index] ELSE " \" Â· \" " \o parts[index])
         \o serializeMarginContentFrom(parts, index + 1)

\* serializeMarginContent that writes only its last part.
serializeMarginContentLastOnly(parts) ==
  IF Len(parts) = 0 THEN "none" ELSE parts[Len(parts)]

serializeMarginContent(parts) ==
  IF Len(parts) = 0 THEN "none" ELSE serializeMarginContentFrom(parts, 1)

NoFontSize == 0 - 1

PAGE_NUMBER_CONTENT == "\"Page \" counter(page)"

\* The boxes record once the header branch of buildMarginBoxRules has run.
HeaderBoxes(chrome) ==
  LET empty == [box \in MarginBoxPositions |-> [content |-> <<>>, fontSizePt |-> NoFontSize]]
      headerText == Trim(chrome.headerText)
  IN IF chrome.headerEnabled /\ headerText # ""
     THEN [empty EXCEPT ![chrome.headerPosition] =
             [content    |-> Append(@.content, escapeCssContent(headerText)),
              fontSizePt |-> clampChromeFontSizePt(chrome.headerFontSizePt)]]
     ELSE empty

\* ... and once the footer branch has run.
FooterBoxes(chrome) ==
  LET boxes == HeaderBoxes(chrome)
      footerText == Trim(chrome.footerText)
  IN IF chrome.footerEnabled /\ footerText # ""
     THEN [boxes EXCEPT ![chrome.footerPosition] =
             [content    |-> Append(@.content, escapeCssContent(footerText)),
              fontSizePt |-> clampChromeFontSizePt(chrome.footerFontSizePt)]]
     ELSE boxes

\* The page-number branch with the header's size in place of the footer's.
PageNumberFontSizeFromHeader(chrome) == clampChromeFontSizePt(chrome.headerFontSizePt)

\* the size the page-number branch gives its box
PageNumberFontSizePt(chrome) == clampChromeFontSizePt(chrome.footerFontSizePt)

\* The boxes record of buildMarginBoxRules after its three branches.
MarginBoxes(chrome) ==
  LET boxes == FooterBoxes(chrome)
  IN IF chrome.pageNumbersEnabled
     THEN [boxes EXCEPT ![chrome.pageNumberPosition] =
             [content    |-> Append(@.content, PAGE_NUMBER_CONTENT),
              fontSizePt |-> PageNumberFontSizePt(chrome)]]
     ELSE boxes

\* The template with a font-size for every box, the default size where the box
\* has none.
MarginBoxRuleAlwaysSized(box, rule) ==
  "\n  @" \o box \o " {\n    content: " \o serializeMarginContent(rule.content) \o ";\n    "
    \o "font-size: "
    \o FormatNumber(IF rule.fontSizePt = NoFontSize THEN DEFAULT_CHROME_FONT_SIZE_PT
                    ELSE rule.fontSizePt)
    \o "pt;" \o "\n  }"

\* the template of one margin box
MarginBoxRule(box, rule) ==
  "\n  @" \o box \o " {\n    content: " \o serializeMarginContent(rule.content) \o ";\n    "
    \o (IF rule.fontSizePt = NoFontSize THEN ""
        ELSE "font-size: " \o FormatNumber(rule.fontSizePt) \o "pt;")
    \o "\n  }"

RECURSIVE JoinRules(_, _, _)
\* Object.entries(boxes).map(...).join('\n'), from the index-th box on
JoinRules(boxes, index, separator) ==
  IF index > Len(PAGE_NUMBER_POSITIONS) THEN ""
  ELSE (IF index = 1 THEN "" ELSE separator)
         \o MarginBoxRule(PAGE_NUMBER_POSITIONS[index], boxes[PAGE_NUMBER_POSITIONS[index]])
         \o JoinRules(boxes, index + 1, separator)

buildMarginBoxRules(chrome) == JoinRules(MarginBoxes(chrome), 1, "\n")

\* buildPagedDocumentCss: the @page rule in full and, of the rules after it,
\* the declarations that interpolate an input (the fixed declarations and the
\* products of two numbers are left out).
buildPagedDocumentCss(input) ==
  LET preset == input.pagePreset
      safeHorizontalMarginMm ==
        clampHorizontalMarginMm(input.horizontalMarginMm, PresetWidthMm(preset))
      safeVerticalMarginMm ==
        clampVerticalMarginMm(input.verticalMarginMm, PresetHeightMm(preset))
  IN "\n@page {\n  size: " \o FormatNumber(PresetWidthMm(preset)) \o "mm "
       \o FormatNumber(PresetHeightMm(preset)) \o "mm;\n  margin: "
       \o FormatNumber(safeVerticalMarginMm) \o "mm " \o FormatNumber(safeHorizontalMarginMm)
       \o "mm;\n  " \o buildMarginBoxRules(input.chrome) \o "\n}\n"
       \o "\n.pagedjs_pagebox {\n  background: " \o input.style.background
       \o ";\n  color: " \o input.style.text \o ";\n}\n"
       \o "\n.document-root {\n  color: " \o input.style.text
       \o ";\n  font-size: " \o FormatNumber(input.style.bodyFontSize)
       \o "px;\n  line-height: " \o FormatNumber(input.style.lineHeight)
       \o ";\n  letter-spacing: " \o FormatNumber(input.style.letterSpacing) \o "em;\n}\n"
       \o "\n.document-root .markdown-body a {\n  color: " \o input.style.accent \o ";\n}\n"

ChromeInputs ==
  [ headerEnabled      : BOOLEAN,
    headerText         : {"", "  ", " Release\r\nDraft\n", "a\"b\\c", "counter(page)"},
    headerPosition     : HEADER_POSITIONS,
    headerFontSizePt   : {11000},
    footerEnabled      : BOOLEAN,
    footerText         : {"Internal\nUse", "\"Page \" counter(page)", "\t"},
    footerPosition     : FOOTER_POSITIONS,
    footerFontSizePt   : {8000, 12500, 3000},
    pageNumbersEnabled : BOOLEAN,
    pageNumberPosition : MarginBoxPositions ]

CssInputs ==
  { [ style |-> DEFAULT_STYLE, pagePreset |-> "letter", horizontalMarginMm |-> 18000,
      verticalMarginMm |-> 18000, chrome |-> chrome ] : chrome \in ChromeInputs }

InitCss ==
  /\ cssInput \in CssInputs
  /\ css = ""
  /\ IdleExcept("css")

\* The paged-preview effect's buildPagedDocumentCss({style, pagePreset, ...}).
BuildPagedDocumentCss ==
  /\ css = ""
  /\ css' = buildPagedDocumentCss(cssInput)
  /\ UNCHANGED <<cssInput, notCss>>

NextCss == BuildPagedDocumentCss

SpecCss == InitCss /\ [][NextCss]_vars

-----------------------------------------------------------------------------
(* Reading the emitted stylesheet back *)

\* the lines of two adjacent pieces of a text, given the lines of each
MergeLines(left, right) ==
  SubSeq(left, 1, Len(left) - 1) \o <<left[Len(left)] \o right[1]>> \o Tail(right)

RECURSIVE SplitLinesBetween(_, _, _)
\* the lines of s[lo..hi], by halves
SplitLinesBetween(s, lo, hi) ==
  IF lo > hi THEN <<"">>
  ELSE IF lo = hi THEN (IF SubSeq(s, lo, lo) = "\n" THEN <<"", "">> ELSE <<SubSeq(s, lo, lo)>>)
  ELSE MergeLines(SplitLinesBetween(s, lo, (lo + hi) \div 2),
                  SplitLinesBetween(s, ((lo + hi) \div 2) + 1, hi))

\* s.split('\n')
SplitLines(s) == SplitLinesBetween(s, 1, Len(s))

StartsWith(s, prefix) == Len(s) >= Len(prefix) /\ SubSeq(s, 1, Len(prefix)) = prefix

\* s.includes(pattern)
Contains(s, pattern) ==
  \E i \in 1..(Len(s) - Len(pattern) + 1) : SubSeq(s, i, i + Len(pattern) - 1) = pattern

StringToken(text) == [kind |-> "string", text |-> text]
IdentToken(text) == [kind |-> "ident", text |-> text]
BadToken == [kind |-> "bad", text |-> ""]

RECURSIVE ReadCssString(_, _, _)
RECURSIVE ReadCssValue(_, _)

\* Reads a CSS string whose opening quote is before position i: \\ and \" stand
\* for the character, \A and a blank for a line feed, an unescaped quote ends it.
ReadCssString(s, i, sofar) ==
  IF i > Len(s) THEN <<BadToken>>
  ELSE LET c == SubSeq(s, i, i)
       IN IF c = "\"" THEN <<StringToken(sofar)>> \o ReadCssValue(s, i + 1)
          ELSE IF c = "\n" THEN <<BadToken>>
          ELSE IF c # "\\" THEN ReadCssString(s, i + 1, sofar \o c)
          ELSE IF i + 2 <= Len(s) /\ SubSeq(s, i + 1, i + 2) = "A "
               THEN ReadCssString(s, i + 3, sofar \o "\n")
          ELSE IF i + 1 <= Len(s) /\ SubSeq(s, i + 1, i + 1) \in {"\\", "\""}
               THEN ReadCssString(s, i + 2, sofar \o SubSeq(s, i + 1, i + 1))
          ELSE <<BadToken>>

RECURSIVE ReadCssIdent(_, _, _)
ReadCssIdent(s, i, sofar) ==
  IF i > Len(s) \/ SubSeq(s, i, i) = " "
  THEN <<IdentToken(sofar)>> \o ReadCssValue(s, i)
  ELSE ReadCssIdent(s, i + 1, sofar \o SubSeq(s, i, i))

\* The components of a CSS content value, from position i on.
ReadCssValue(s, i) ==
  IF i > Len(s) THEN <<>>
  ELSE IF SubSeq(s, i, i) = " " THEN ReadCssValue(s, i + 1)
  ELSE IF SubSeq(s, i, i) = "\"" THEN ReadCssString(s, i + 1, "")
  ELSE ReadCssIdent(s, i, "")

\* The rule of margin box 'box' in the lines of a stylesheet: how many rules
\* open with "@box {", and the content value and third line of the first.
RuleOf(lines, box) ==
  LET opens == {i \in 1..Len(lines) : lines[i] = "  @" \o box \o " {"}
      at == CHOOSE i \in opens : \A j \in opens : i <= j
      contentLine == lines[at + 1]
  IN IF opens = {} \/ (CHOOSE i \in opens : \A j \in opens : i <= j) + 3 > Len(lines)
     THEN [count |-> 0, content |-> <<BadToken>>, sizeLine |-> ""]
     ELSE [count    |-> Cardinality(opens),
           content  |-> IF StartsWith(contentLine, "    content: ")
                           /\ SubSeq(contentLine, Len(contentLine), Len(contentLine)) = ";"
                        THEN ReadCssValue(SubSeq(contentLine, 14, Len(contentLine) - 1), 1)
                        ELSE <<BadToken>>,
           sizeLine |-> lines[at + 2]]

Built == css # ""

\* A header or footer text as the margin box is to show it: without the white
\* space around it, a CR LF pair counting as one line feed.
Shown(text) == ReplaceNewlines(Trim(text), "\n")

SeparatorToken == StringToken(" Â· ")
PageNumberTokens == <<StringToken("Page "), IdentToken("counter(page)")>>

RECURSIVE Joined(_)
\* sources (each a sequence of components) with the separator between them
Joined(sources) ==
  IF Len(sources) = 0 THEN <<IdentToken("none")>>
  ELSE IF Len(sources) = 1 THEN sources[1]
  ELSE sources[1] \o <<SeparatorToken>> \o Joined(Tail(sources))

\* The sources of one box, in the order header, footer, page number.
SourcesAt(box, headerLands, header, footerLands, footer, chrome) ==
  (IF headerLands /\ chrome.headerPosition = box THEN <<(<<StringToken(header)>>)>> ELSE <<>>)
    \o (IF footerLands /\ chrome.footerPosition = box
        THEN <<(<<StringToken(footer)>>)>> ELSE <<>>)
    \o (IF chrome.pageNumbersEnabled /\ chrome.pageNumberPosition = box
        THEN <<PageNumberTokens>> ELSE <<>>)

-----------------------------------------------------------------------------
(* Claims about the CSS layout compiler *)

\* C7 as stated: each of the six margin boxes shows, in the order header text,
\* footer text, page-number expression, exactly the sources that are enabled
\* and routed to it, joined by the separator, and 'none' when it has no source.
C7_EnabledSourcesInOrder ==
  Built =>
    LET lines == SplitLines(css)
        chrome == cssInput.chrome
    IN \A box \in MarginBoxPositions :
         RuleOf(lines, box).content =
           Joined(SourcesAt(box, chrome.headerEnabled, chrome.headerText,
                            chrome.footerEnabled, chrome.footerText, chrome))

\* C7, amended: each of the six margin boxes shows, in the order header text,
\* footer text, page-number expression, exactly the sources that are enabled,
\* routed to it and, for the header and the footer, not blank once the white
\* space around the text is removed; the text shown is the trimmed text; the
\* sources are joined by the separator, and a box with no such source emits
\* 'content: none'.
C7_NonBlankEnabledSourcesInOrder ==
  Built =>
    LET lines == SplitLines(css)
        chrome == cssInput.chrome
    IN \A box \in MarginBoxPositions :
         RuleOf(lines, box).content =
           Joined(SourcesAt(box,
                            chrome.headerEnabled /\ Trim(chrome.headerText) # "",
                            Shown(chrome.headerText),
                            chrome.footerEnabled /\ Trim(chrome.footerText) # "",
                            Shown(chrome.footerText), chrome))

\* The header and the page number share a box, the footer has one of its own,
\* and the other boxes are empty.
C7_Witness ==
  /\ Built
  /\ cssInput.chrome.headerEnabled /\ cssInput.chrome.footerEnabled
  /\ cssInput.chrome.pageNumbersEnabled
  /\ cssInput.chrome.headerText = "a\"b\\c"
  /\ cssInput.chrome.headerPosition = "top-right"
  /\ cssInput.chrome.footerPosition = "bottom-left"
  /\ cssInput.chrome.pageNumberPosition = "top-right"
  /\ Contains(css, "  @top-right {\n    content: \"a\\\"b\\\\c\" \" Â· \" \"Page \" counter(page);")
  /\ Contains(css, "  @bottom-left {\n    content: \"Internal\\A Use\";")
  /\ Contains(css, "  @top-left {\n    content: none;")

\* C8 as stated: the stylesheet contains 'counter(page)' if and only if page
\* numbers are enabled, and it has one rule for each occupied corner with the
\* header or footer text quoted and escaped.
C8_CounterIffPageNumbers ==
  Built =>
    /\ Contains(css, "counter(page)") <=> cssInput.chrome.pageNumbersEnabled
    /\ \A box \in MarginBoxPositions : RuleOf(SplitLines(css), box).count = 1

\* C8, amended: the stylesheet contains 'counter(page)' whenever page numbers
\* are enabled; when they are disabled it contains it only inside the quoted
\* text of an enabled header or footer whose text contains it, and never as the
\* page-number expression "Page " counter(page), which is present if and only
\* if page numbers are enabled. There is exactly one rule for each of the six
\* positions, occupied or not, and an occupied one begins with the header (or
\* else the footer) text trimmed, quoted, and with backslash, double quote and
\* line feed escaped.
C8_PageNumberExpressionIffEnabled ==
  Built =>
    LET lines == SplitLines(css)
        chrome == cssInput.chrome
        header == Trim(chrome.headerText)
        footer == Trim(chrome.footerText)
        headerLands == chrome.headerEnabled /\ header # ""
        footerLands == chrome.footerEnabled /\ footer # ""
    IN /\ chrome.pageNumbersEnabled => Contains(css, "counter(page)")
       /\ Contains(css, "counter(page)") =>
            \/ chrome.pageNumbersEnabled
            \/ headerLands /\ Contains(header, "counter(page)")
            \/ footerLands /\ Contains(footer, "counter(page)")
       /\ Contains(css, "\"Page \" counter(page)") <=> chrome.pageNumbersEnabled
       /\ \A box \in MarginBoxPositions :
            LET rule == RuleOf(lines, box)
            IN /\ rule.count = 1
               /\ IdentToken("counter(page)") \in
                    {rule.content[i] : i \in 1..Len(rule.content)}
                  <=> chrome.pageNumbersEnabled /\ chrome.pageNumberPosition = box
       /\ headerLands =>
            RuleOf(lines, chrome.headerPosition).content[1] = StringToken(Shown(header))
       /\ footerLands /\ ~(headerLands /\ chrome.headerPosition = chrome.footerPosition) =>
            RuleOf(lines, chrome.footerPosition).content[1] = StringToken(Shown(footer))

\* Page numbers are off while the enabled footer's own text reads as the
\* page-number expression, and the header has a quote and a backslash.
C8_Witness ==
  /\ Built
  /\ ~cssInput.chrome.pageNumbersEnabled
  /\ cssInput.chrome.footerEnabled
  /\ cssInput.chrome.footerText = "\"Page \" counter(page)"
  /\ cssInput.chrome.headerEnabled
  /\ cssInput.chrome.headerText = "a\"b\\c"
  /\ Contains(css, "content: \"\\\"Page \\\" counter(page)\";")
  /\ Contains(css, "content: \"a\\\"b\\\\c\";")

\* C9: when page numbers are enabled, the margin box at pageNumberPosition
\* carries as font-size the footer's point size pulled into [7, 16], at each
\* of the six positions and whether or not the footer is enabled.
C9_PageNumbersUseFooterSize ==
  Built /\ cssInput.chrome.pageNumbersEnabled =>
    RuleOf(SplitLines(css), cssInput.chrome.pageNumberPosition).sizeLine =
      "    font-size: "
        \o FormatNumber(NearestInRange(cssInput.chrome.footerFontSizePt, 7000, 16000))
        \o "pt;"

\* The footer is disabled and the enabled header shares the page-number box:
\* the box still carries the footer's size, here 3 pulled up to 7.
C9_Witness ==
  /\ Built
  /\ cssInput.chrome.pageNumbersEnabled
  /\ ~cssInput.chrome.footerEnabled
  /\ cssInput.chrome.headerEnabled
  /\ cssInput.chrome.headerText = "counter(page)"
  /\ cssInput.chrome.headerPosition = "top-center"
  /\ cssInput.chrome.pageNumberPosition = "top-center"
  /\ cssInput.chrome.headerFontSizePt = 11000
  /\ cssInput.chrome.footerFontSizePt = 3000
  /\ Contains(css, "  @top-center {\n    content: \"counter(page)\" \" Â· \" \"Page \" counter(page);\n    font-size: 7pt;\n  }")

\* how many sources a content value joins
NumSources(content) ==
  IF content = <<IdentToken("none")>> THEN 0
  ELSE 1 + Cardinality({i \in 1..Len(content) : content[i] = SeparatorToken})

\* how many font-size declarations a line holds
NumFontSizes(line) ==
  Cardinality({i \in 1..(Len(line) - 9) : SubSeq(line, i, i + 9) = "font-size:"})

\* What C29 says of every box but the size of the shared one.
BoxesCarryOneSize ==
  LET lines == SplitLines(css)
  IN \A box \in MarginBoxPositions :
       LET rule == RuleOf(lines, box)
       IN /\ rule.count = 1
          /\ NumFontSizes(rule.sizeLine) <= 1
          /\ NumSources(rule.content) <= 2
          /\ NumSources(rule.content) = 0 => NumFontSizes(rule.sizeLine) = 0
          /\ NumSources(rule.content) = 2 =>
               /\ cssInput.chrome.pageNumbersEnabled /\ cssInput.chrome.pageNumberPosition = box
               /\ rule.content[Len(rule.content)] = IdentToken("counter(page)")

SharesHeaderBox ==
  /\ cssInput.chrome.pageNumbersEnabled
  /\ cssInput.chrome.headerEnabled
  /\ cssInput.chrome.pageNumberPosition = cssInput.chrome.headerPosition

-----------------------------------------------------------------------------
(* The header text as a CSS string *)

MaxContentLen == 3

RECURSIVE ContentTextsOfLength(_)
ContentTextsOfLength(n) ==
  IF n = 0 THEN {""}
  ELSE {t \o c : t \in ContentTextsOfLength(n - 1), c \in {"a", "\"", "\\", "\n", "\r"}}

ContentTexts == UNION {ContentTextsOfLength(n) : n \in 0..MaxContentLen}

\* An enabled header alone on the page, with any text.
CssTextInputs ==
  { [ style |-> DEFAULT_STYLE, pagePreset |-> "a4", horizontalMarginMm |-> 16000,
      verticalMarginMm |-> 16000,
      chrome |-> [DEFAULT_PAGE_CHROME EXCEPT !.headerEnabled = TRUE, !.headerText = text,
                                             !.pageNumbersEnabled = FALSE] ] :
      text \in ContentTexts }

InitCssText ==
  /\ cssInput \in CssTextInputs
  /\ css = ""
  /\ IdleExcept("css")

SpecCssText == InitCssText /\ [][NextCss]_vars

\* the first position from 'from' on where pattern stands in s, 0 when nowhere
IndexOf(s, pattern, from) ==
  LET at == {i \in from..(Len(s) - Len(pattern) + 1) : SubSeq(s, i, i + Len(pattern) - 1) = pattern}
  IN IF at = {} THEN 0 ELSE CHOOSE i \in at : \A j \in at : i <= j

\* What the stylesheet gives the header's box as its content: the text between
\* 'content: ' and the end of the declaration, "" when the rule is not there.
HeaderLiteral ==
  LET open == "  @" \o cssInput.chrome.headerPosition \o " {\n    content: "
      from == IndexOf(css, open, 1)
      to == IndexOf(css, ";\n    font-size: ", from + Len(open))
  IN IF from = 0 \/ to = 0 THEN "" ELSE SubSeq(css, from + Len(open), to - 1)

RECURSIVE InnerEscaped(_, _)
\* From position i on, s has no double quote without a backslash before it, no
\* backslash without a character after it, and no raw line feed.
InnerEscaped(s, i) ==
  IF i > Len(s) THEN TRUE
  ELSE IF SubSeq(s, i, i) \in {"\"", "\n"} THEN FALSE
  ELSE IF SubSeq(s, i, i) = "\\" THEN i + 1 <= Len(s) /\ InnerEscaped(s, i + 2)
  ELSE InnerEscaped(s, i + 1)

\* the three conditions the literal is to meet, character by character
LiteralIsEscaped(literal) ==
  /\ Len(literal) >= 2
  /\ SubSeq(literal, 1, 1) = "\""
  /\ SubSeq(literal, Len(literal), Len(literal)) = "\""
  /\ InnerEscaped(SubSeq(literal, 2, Len(literal) - 1), 1)

\* CSS Syntax 3.3 and 4.3.5: a line feed, a carriage return and a form feed
\* each end the line, and an unescaped end of line ends a string as a bad one.
CssNewlines == {"\n", "\r", "\f"}

RECURSIVE EndOfCssString(_, _)
\* Where the CSS string ends whose opening quote stands before position i of
\* s: the position of its closing quote, 0 when the string is cut short.
EndOfCssString(s, i) ==
  IF i > Len(s) THEN 0
  ELSE IF SubSeq(s, i, i) = "\"" THEN i
  ELSE IF SubSeq(s, i, i) \in CssNewlines THEN 0
  ELSE IF SubSeq(s, i, i) = "\\" THEN (IF i = Len(s) THEN 0 ELSE EndOfCssString(s, i + 2))
  ELSE EndOfCssString(s, i + 1)

\* C28: for every header or footer text, the CSS string literal produced by
\* escapeCssContent starts and ends with a double quote and contains in between
\* no double quote without an escaping backslash before it, no lone backslash
\* and no raw line feed, so that user text never terminates the content string:
\* the string a CSS reader opens at the first quote ends at the last one.
C28_ContentLiteralIsOneString ==
  Built /\ Trim(cssInput.chrome.headerText) # "" =>
    /\ LiteralIsEscaped(HeaderLiteral)
    /\ EndOfCssString(HeaderLiteral, 2) = Len(HeaderLiteral)

\* The three conditions on the characters alone.
C28_LiteralIsEscaped ==
  Built /\ Trim(cssInput.chrome.headerText) # "" => LiteralIsEscaped(HeaderLiteral)

\* Without a carriage return of its own in the text, the literal is one string.
C28_OneStringWithoutCarriageReturn ==
  Built /\ Trim(cssInput.chrome.headerText) # ""
    /\ ~Contains(ReplaceNewlines(Trim(cssInput.chrome.headerText), ""), "\r") =>
    EndOfCssString(HeaderLiteral, 2) = Len(HeaderLiteral)

-----------------------------------------------------------------------------
(* The Markdown toolbar *)

MaxTextLen == 3

MaxEdits == 1

MARKDOWN_ACTIONS ==
  <<"heading", "bold", "italic", "link", "quote", "bulleted-list", "numbered-list",
    "code-block", "table", "rule">>

\* markdown.slice(from, to) for 0 <= from; to is cut at the length
Slice(markdown, from, to) ==
  SubSeq(markdown, from + 1, IF to > Len(markdown) THEN Len(markdown) ELSE to)

MarkdownEditResult(markdown, selectionStart, selectionEnd) ==
  [markdown |-> markdown, selectionStart |-> selectionStart, selectionEnd |-> selectionEnd]

\* replaceSelection that resumes the text one character after the selection end.
replaceSelectionSkippingOne(markdown, selectionStart, selectionEnd, replacement, nextSelectionStart, nextSelectionEnd) ==
  MarkdownEditResult(
    Slice(markdown, 0, selectionStart) \o replacement
      \o Slice(markdown, selectionEnd + 1, Len(markdown)),
    nextSelectionStart, nextSelectionEnd)

replaceSelection(markdown, selectionStart, selectionEnd, replacement, nextSelectionStart, nextSelectionEnd) ==
  MarkdownEditResult(
    Slice(markdown, 0, selectionStart) \o replacement
      \o Slice(markdown, selectionEnd, Len(markdown)),
    nextSelectionStart, nextSelectionEnd)

\* wrapSelection that leaves the whole replacement selected, delimiters included.
wrapSelectionSelectingDelimiters(markdown, selectionStart, selectionEnd, prefix, suffix, placeholder) ==
  LET selected == Slice(markdown, selectionStart, selectionEnd)
      content == IF selected # "" THEN selected ELSE placeholder
      replacement == prefix \o content \o suffix
  IN replaceSelection(markdown, selectionStart, selectionEnd, replacement,
                      selectionStart, selectionStart + Len(replacement))

wrapSelection(markdown, selectionStart, selectionEnd, prefix, suffix, placeholder) ==
  LET selected == Slice(markdown, selectionStart, selectionEnd)
      content == IF selected # "" THEN selected ELSE placeholder
      replacement == prefix \o content \o suffix
  IN replaceSelection(markdown, selectionStart, selectionEnd, replacement,
                      selectionStart + Len(prefix),
                      selectionStart + Len(prefix) + Len(content))

\* getPrefix callbacks whose numbered list counts from 0.
GetPrefixFromZero(action, index) ==
  IF action = "heading" THEN "## "
  ELSE IF action = "quote" THEN "> "
  ELSE IF action = "bulleted-list" THEN "- "
  ELSE NatToStr(index) \o ". "

\* the getPrefix callbacks that applyMarkdownAction hands to prefixLines
GetPrefix(action, index) ==
  IF action = "heading" THEN "## "
  ELSE IF action = "quote" THEN "> "
  ELSE IF action = "bulleted-list" THEN "- "
  ELSE NatToStr(index + 1) \o ". "

RECURSIVE PrefixedLinesFrom(_, _, _)
\* lines.map((line, index) => getPrefix(index) + line).join('\n'), from line i on
PrefixedLinesFrom(lines, action, i) ==
  IF i > Len(lines) THEN ""
  ELSE (IF i = 1 THEN "" ELSE "\n") \o GetPrefix(action, i - 1) \o lines[i]
         \o PrefixedLinesFrom(lines, action, i + 1)

prefixLines(markdown, selectionStart, selectionEnd, action, fallbackText) ==
  LET slice == Slice(markdown, selectionStart, selectionEnd)
      selected == IF slice # "" THEN slice ELSE fallbackText
      replacement == PrefixedLinesFrom(SplitLines(selected), action, 1)
  IN replaceSelection(markdown, selectionStart, selectionEnd, replacement,
                      selectionStart, selectionStart + Len(replacement))

EndsWith(s, suffix) ==
  Len(s) >= Len(suffix) /\ SubSeq(s, Len(s) - Len(suffix) + 1, Len(s)) = suffix

\* The grave accent, cut from a two-character string: a string literal that
\* holds one must hold an apostrophe after it.
Backtick == SubSeq("`'", 1, 1)

CODE_FENCE == Backtick \o Backtick \o Backtick

TABLE_REPLACEMENT == "| Column | Details |\n| --- | --- |\n| Item | Value |"

CODE_BLOCK_PLACEHOLDER == "const message = \"Hello world\""

\* A code-block case that counts the fence but not the language hint and the
\* newline after it.
CodeBlockEditSelectingFromFence(markdown, selectionStart, selectionEnd) ==
  LET slice == Slice(markdown, selectionStart, selectionEnd)
      selected == IF slice # "" THEN slice ELSE CODE_BLOCK_PLACEHOLDER
  IN replaceSelection(markdown, selectionStart, selectionEnd,
                      CODE_FENCE \o "ts\n" \o selected \o "\n" \o CODE_FENCE,
                      selectionStart + 3, selectionStart + 3 + Len(selected))

\* case 'code-block' of applyMarkdownAction
CodeBlockEdit(markdown, selectionStart, selectionEnd) ==
  LET slice == Slice(markdown, selectionStart, selectionEnd)
      selected == IF slice # "" THEN slice ELSE CODE_BLOCK_PLACEHOLDER
  IN replaceSelection(markdown, selectionStart, selectionEnd,
                      CODE_FENCE \o "ts\n" \o selected \o "\n" \o CODE_FENCE,
                      selectionStart + 6, selectionStart + 6 + Len(selected))

applyMarkdownAction(input, action) ==
  LET markdown == input.markdown
      selectionStart == input.selectionStart
      selectionEnd == input.selectionEnd
  IN CASE action = "heading" ->
            prefixLines(markdown, selectionStart, selectionEnd, action, "Section title")
       [] action = "bold" ->
            wrapSelection(markdown, selectionStart, selectionEnd, "**", "**", "bold text")
       [] action = "italic" ->
            wrapSelection(markdown, selectionStart, selectionEnd, "*", "*", "emphasis")
       [] action = "link" ->
            wrapSelection(markdown, selectionStart, selectionEnd, "[",
                          "](https://example.com)", "link text")
       [] action = "quote" ->
            prefixLines(markdown, selectionStart, selectionEnd, action, "Quoted text")
       [] action = "bulleted-list" ->
            prefixLines(markdown, selectionStart, selectionEnd, action, "List item")
       [] action = "numbered-list" ->
            prefixLines(markdown, selectionStart, selectionEnd, action, "List item")
       [] action = "code-block" -> CodeBlockEdit(markdown, selectionStart, selectionEnd)
       [] action = "table" ->
            replaceSelection(markdown, selectionStart, selectionEnd, TABLE_REPLACEMENT,
                             selectionStart, selectionStart + Len(TABLE_REPLACEMENT))
       [] action = "rule" ->
            LET prefix == IF selectionStart > 0
                             /\ ~EndsWith(Slice(markdown, 0, selectionStart), "\n")
                          THEN "\n" ELSE ""
                suffix == IF selectionEnd < Len(markdown)
                             /\ ~StartsWith(Slice(markdown, selectionEnd, Len(markdown)), "\n")
                          THEN "\n" ELSE ""
                replacement == prefix \o "\n---\n" \o suffix
                nextStart == selectionStart + Len(replacement)
            IN replaceSelection(markdown, selectionStart, selectionEnd, replacement,
                                nextStart, nextStart)

\* textarea.setSelectionRange(start, end) on a value of the given length
SetSelectionRange(value, start, end) ==
  LET cutEnd == IF end > Len(value) THEN Len(value) ELSE end
      cutStart == IF start > cutEnd THEN cutEnd ELSE start
  IN [value |-> value, selectionStart |-> cutStart, selectionEnd |-> cutEnd]

RECURSIVE TextsOfLength(_)
TextsOfLength(n) ==
  IF n = 0 THEN {""} ELSE {t \o c : t \in TextsOfLength(n - 1), c \in {"a", "b", "\n"}}

EditorTexts ==
  UNION {TextsOfLength(n) : n \in 0..MaxTextLen} \cup {"Hello world", "First\nSecond"}

InitToolbar ==
  /\ \E value \in EditorTexts : \E start \in 0..Len(value) : \E end \in start..Len(value) :
       textarea = [value |-> value, selectionStart |-> start, selectionEnd |-> end]
  /\ lastEdit = NoEdit
  /\ IdleExcept("edit")

\* applyToolbarAction(action) with a mounted textarea.
ApplyToolbarAction(action) ==
  /\ lastEdit.count < MaxEdits
  /\ LET edit == applyMarkdownAction(
                   [markdown |-> textarea.value, selectionStart |-> textarea.selectionStart,
                    selectionEnd |-> textarea.selectionEnd], action)
     IN /\ textarea' = SetSelectionRange(edit.markdown, edit.selectionStart, edit.selectionEnd)
        /\ lastEdit' = [action |-> action, markdown |-> textarea.value,
                        selectionStart |-> textarea.selectionStart,
                        selectionEnd |-> textarea.selectionEnd, edit |-> edit,
                        count |-> lastEdit.count + 1]
  /\ UNCHANGED notEdit

NextToolbar == \E i \in DOMAIN MARKDOWN_ACTIONS : ApplyToolbarAction(MARKDOWN_ACTIONS[i])

SpecToolbar == InitToolbar /\ [][NextToolbar]_vars

-----------------------------------------------------------------------------
(* Claims about the Markdown toolbar *)

WrapActions == {"bold", "italic", "link"}

WrapPrefix(action) == IF action = "bold" THEN "**" ELSE IF action = "italic" THEN "*" ELSE "["

WrapSuffix(action) ==
  IF action = "bold" THEN "**" ELSE IF action = "italic" THEN "*"
  ELSE "](https://example.com)"

WrapPlaceholder(action) ==
  IF action = "bold" THEN "bold text" ELSE IF action = "italic" THEN "emphasis"
  ELSE "link text"

\* C10: after bold, italic or link on a text with selection [start, end), the
\* text is text[0,start) + prefix + content + suffix + text[end,..), content
\* being the selected text or, for an empty selection, the placeholder, and
\* the selection is [start + |prefix|, start + |prefix| + |content|): it holds
\* the content and none of the delimiters.
C10_WrapSelectsInnerContent ==
  lastEdit.action \in WrapActions =>
    LET text == lastEdit.markdown
        start == lastEdit.selectionStart
        end == lastEdit.selectionEnd
        prefix == WrapPrefix(lastEdit.action)
        suffix == WrapSuffix(lastEdit.action)
        content == IF start = end THEN WrapPlaceholder(lastEdit.action)
                   ELSE SubSeq(text, start + 1, end)
    IN /\ textarea.value =
            SubSeq(text, 1, start) \o prefix \o content \o suffix
              \o SubSeq(text, end + 1, Len(text))
       /\ textarea.selectionStart = start + Len(prefix)
       /\ textarea.selectionEnd = start + Len(prefix) + Len(content)
       /\ SubSeq(textarea.value, textarea.selectionStart + 1, textarea.selectionEnd) = content

\* Bold on 'Hello world' with 'world' selected gives 'Hello **world**' with
\* 'world' selected.
C10_Witness ==
  /\ lastEdit.action = "bold"
  /\ lastEdit.markdown = "Hello world"
  /\ lastEdit.selectionStart = 6
  /\ lastEdit.selectionEnd = 11
  /\ textarea = [value |-> "Hello **world**", selectionStart |-> 8, selectionEnd |-> 13]

PrefixActions == {"heading", "quote", "bulleted-list", "numbered-list"}

LinePlaceholder(action) ==
  IF action = "heading" THEN "Section title"
  ELSE IF action = "quote" THEN "Quoted text"
  ELSE "List item"

\* The prefix the action gives line i (from 0); a numbered list counts from 1.
LinePrefix(action, i) ==
  IF action = "heading" THEN "## "
  ELSE IF action = "quote" THEN "> "
  ELSE IF action = "bulleted-list" THEN "- "
  ELSE IF i < 9 THEN SubSeq("123456789", i + 1, i + 1) \o ". "
  ELSE NatToStr(i + 1) \o ". "

\* C11: after heading, quote, bulleted-list or numbered-list, the selected text
\* (the placeholder line for an empty selection) has been split on newline,
\* each line i has the action's prefix before it, the lines are rejoined in
\* the same number and order, and the selection is the whole transformed
\* block [start, start + |block|).
C11_PrefixLinesSelectsBlock ==
  lastEdit.action \in PrefixActions =>
    LET text == lastEdit.markdown
        start == lastEdit.selectionStart
        end == lastEdit.selectionEnd
        selected == IF start = end THEN LinePlaceholder(lastEdit.action)
                    ELSE SubSeq(text, start + 1, end)
        block == SubSeq(textarea.value, textarea.selectionStart + 1, textarea.selectionEnd)
        before == SplitLines(selected)
        after == SplitLines(block)
    IN /\ textarea.selectionStart = start
       /\ textarea.selectionEnd - start = Len(textarea.value) - Len(text) + (end - start)
       /\ textarea.value = SubSeq(text, 1, start) \o block \o SubSeq(text, end + 1, Len(text))
       /\ Len(after) = Len(before)
       /\ \A i \in 1..Len(before) : after[i] = LinePrefix(lastEdit.action, i - 1) \o before[i]

\* numbered-list on 'First\nSecond' fully selected gives '1. First\n2. Second',
\* all of it selected.
C11_Witness ==
  /\ lastEdit.action = "numbered-list"
  /\ lastEdit.markdown = "First\nSecond"
  /\ lastEdit.selectionStart = 0
  /\ lastEdit.selectionEnd = 12
  /\ textarea = [value |-> "1. First\n2. Second", selectionStart |-> 0, selectionEnd |-> 18]

InsertActions == {"table", "rule"}

Boilerplate(action) == IF action = "table" THEN TABLE_REPLACEMENT ELSE "\n---\n"

\* C12 as stated: table and rule insert their boilerplate at the selection,
\* with a leading newline exactly when the text before the selection is not
\* empty and does not end with a newline, a trailing newline exactly when the
\* text after it is not empty and does not begin with one, and leave a
\* collapsed selection.
C12_TableAndRuleInsertCollapsed ==
  lastEdit.action \in InsertActions =>
    LET text == lastEdit.markdown
        start == lastEdit.selectionStart
        end == lastEdit.selectionEnd
        lead == IF start > 0 /\ SubSeq(text, start, start) # "\n" THEN "\n" ELSE ""
        trail == IF end < Len(text) /\ SubSeq(text, end + 1, end + 1) # "\n" THEN "\n" ELSE ""
    IN /\ textarea.value =
            SubSeq(text, 1, start) \o lead \o Boilerplate(lastEdit.action) \o trail
              \o SubSeq(text, end + 1, Len(text))
       /\ textarea.selectionStart = textarea.selectionEnd

\* C23: the code-block action replaces the selection by the opening fence with
\* its language hint, a newline, the selected text (the placeholder when the
\* selection is empty), a newline and the closing fence, and the new selection
\* covers exactly that inner content, for every text and every selection.
C23_CodeBlockSelectsInnerContent ==
  lastEdit.action = "code-block" =>
    LET text == lastEdit.markdown
        start == lastEdit.selectionStart
        end == lastEdit.selectionEnd
        content == IF start = end THEN CODE_BLOCK_PLACEHOLDER ELSE SubSeq(text, start + 1, end)
    IN /\ textarea.value =
            SubSeq(text, 1, start) \o CODE_FENCE \o "ts" \o "\n" \o content \o "\n"
              \o CODE_FENCE \o SubSeq(text, end + 1, Len(text))
       /\ lastEdit.edit.selectionEnd - lastEdit.edit.selectionStart = Len(content)
       /\ SubSeq(textarea.value, textarea.selectionStart + 1, textarea.selectionEnd) = content

C23_Witness ==
  /\ lastEdit.action = "code-block"
  /\ lastEdit.markdown = "Hello world"
  /\ lastEdit.selectionStart = 6
  /\ lastEdit.selectionEnd = 11
  /\ SubSeq(textarea.value, textarea.selectionStart + 1, textarea.selectionEnd) = "world"

\* C27: for every toolbar action, every text and every selection with
\* 0 <= start <= end <= length, the result begins with text[0, start) and ends
\* with text[end, length) unchanged, something non-empty stands between them
\* (the replacement, so the length is length - (end - start) + |replacement|),
\* and the returned selection satisfies
\* 0 <= selectionStart <= selectionEnd <= length of the result.
C27_EditKeepsTextOutsideSelection ==
  lastEdit.action # "" =>
    LET text == lastEdit.markdown
        start == lastEdit.selectionStart
        end == lastEdit.selectionEnd
        result == lastEdit.edit.markdown
        replacementLen == Len(result) - (Len(text) - (end - start))
    IN /\ replacementLen > 0
       /\ SubSeq(result, 1, start) = SubSeq(text, 1, start)
       /\ SubSeq(result, start + replacementLen + 1, Len(result)) = SubSeq(text, end + 1, Len(text))
       /\ 0 <= lastEdit.edit.selectionStart
       /\ lastEdit.edit.selectionStart <= lastEdit.edit.selectionEnd
       /\ lastEdit.edit.selectionEnd <= Len(result)
       /\ textarea.value = result

C27_Witness ==
  /\ lastEdit.action = "quote"
  /\ lastEdit.markdown = "a\nb"
  /\ lastEdit.selectionStart = 1
  /\ lastEdit.selectionEnd = 2
  /\ lastEdit.edit.markdown = "a> \n> b"

-----------------------------------------------------------------------------
(* Preparing markdown for the renderer *)

MaxPieces == 4

TILDE_FENCE == "~~~"

\* The first position from i on where s reads fence, or 0.
IndexOfFrom(s, fence, i) ==
  LET at == {j \in i..(Len(s) - Len(fence) + 1) : SubSeq(s, j, j + Len(fence) - 1) = fence}
  IN IF at = {} THEN 0 ELSE CHOOSE j \in at : \A k \in at : j <= k

\* The match of FENCED_CODE_BLOCK_PATTERN that begins at position i, as the
\* position of its last character, or 0: an opening fence and the nearest
\* closing fence of the same kind after it.
FenceMatchAt(s, i) ==
  LET opening == IF i + 2 <= Len(s) THEN SubSeq(s, i, i + 2) ELSE ""
      close == IF opening \in {CODE_FENCE, TILDE_FENCE} THEN IndexOfFrom(s, opening, i + 3) ELSE 0
  IN IF close = 0 THEN 0 ELSE close + 2

RECURSIVE SplitFencedFrom(_, _, _)
\* markdown.split(FENCED_CODE_BLOCK_PATTERN) from position i on, the text
\* segment under way having begun at start: text and captured fence alternate.
SplitFencedFrom(s, start, i) ==
  IF i > Len(s) THEN <<SubSeq(s, start, Len(s))>>
  ELSE IF FenceMatchAt(s, i) = 0 THEN SplitFencedFrom(s, start, i + 1)
  ELSE <<SubSeq(s, start, i - 1), SubSeq(s, i, FenceMatchAt(s, i))>>
         \o SplitFencedFrom(s, FenceMatchAt(s, i) + 1, FenceMatchAt(s, i) + 1)

SIGNATURE_LINE_OPEN == "<span class=\"signature-line\" aria-hidden=\"true\" style=\"width: "

SIGNATURE_LINE_CLOSE == "ch\"></span>"

\* the replacer of UNDERLINE_PLACEHOLDER_PATTERN for a match of the given length
SignatureLine(length) ==
  SIGNATURE_LINE_OPEN \o NatToStr(IF length >= 4 THEN length ELSE 4) \o SIGNATURE_LINE_CLOSE

\* The length of the run of underscores that begins at position i.
RECURSIVE UnderscoreRun(_, _)
UnderscoreRun(s, i) ==
  IF i <= Len(s) /\ SubSeq(s, i, i) = "_" THEN 1 + UnderscoreRun(s, i + 1) ELSE 0

RECURSIVE ReplaceUnderlinesFrom(_, _)
\* segment.replace(UNDERLINE_PLACEHOLDER_PATTERN, replacer) from position i on
ReplaceUnderlinesFrom(s, i) ==
  IF i > Len(s) THEN ""
  ELSE LET run == UnderscoreRun(s, i)
       IN IF run >= 4 THEN SignatureLine(run) \o ReplaceUnderlinesFrom(s, i + run)
          ELSE IF run > 0 THEN SubSeq(s, i, i + run - 1) \o ReplaceUnderlinesFrom(s, i + run)
          ELSE SubSeq(s, i, i) \o ReplaceUnderlinesFrom(s, i + 1)

\* the callback of map: a segment that starts with a fence is returned as it is
PrepareSegment(segment) ==
  IF StartsWith(segment, CODE_FENCE) \/ StartsWith(segment, TILDE_FENCE) THEN segment
  ELSE ReplaceUnderlinesFrom(segment, 1)

RECURSIVE JoinPrepared(_, _)
\* segments.map(callback).join('') from the i-th segment on
JoinPrepared(segments, i) ==
  IF i > Len(segments) THEN ""
  ELSE PrepareSegment(segments[i]) \o JoinPrepared(segments, i + 1)

prepareMarkdownForRender(markdown) == JoinPrepared(SplitFencedFrom(markdown, 1, 1), 1)

MarkdownPieces == {CODE_FENCE, TILDE_FENCE, "____", "___", "_", "a", "\n"}

RECURSIVE MarkdownOfPieces(_)
MarkdownOfPieces(n) ==
  IF n = 0 THEN {""} ELSE {t \o piece : t \in MarkdownOfPieces(n - 1), piece \in MarkdownPieces}

RenderInputs ==
  UNION {MarkdownOfPieces(n) : n \in 0..MaxPieces}
    \cup {"Tanda Tangan: ________\n\n" \o CODE_FENCE \o "txt\nkeep ________ literal\n" \o CODE_FENCE}

InitRender ==
  /\ renderPc = "ready"
  /\ renderMarkdown \in RenderInputs
  /\ renderedMarkdown = ""
  /\ IdleExcept("render")

\* DocumentContent: const renderedMarkdown = prepareMarkdownForRender(markdown)
RenderMarkdown ==
  /\ renderPc = "ready"
  /\ renderedMarkdown' = prepareMarkdownForRender(renderMarkdown)
  /\ renderPc' = "done"
  /\ UNCHANGED <<renderMarkdown, notRender>>

NextRender == RenderMarkdown

SpecRender == InitRender /\ [][NextRender]_vars

-----------------------------------------------------------------------------
(* Claims about preparing markdown *)

RECURSIVE FencesKeptRunsReplaced(_, _)
\* The pieces of a split text from the i-th on, put together again: a closed
\* fenced block (every second piece) as it is, the text around the blocks with
\* each run of four or more underscores replaced by a signature line.
FencesKeptRunsReplaced(pieces, i) ==
  IF i > Len(pieces) THEN ""
  ELSE (IF i % 2 = 0 THEN pieces[i] ELSE ReplaceUnderlinesFrom(pieces[i], 1))
         \o FencesKeptRunsReplaced(pieces, i + 1)

\* C13: prepareMarkdownForRender returns every closed fenced code block
\* unchanged, underscore runs included, and outside the closed blocks replaces
\* every maximal run of n >= 4 underscores by one signature line of width n ch,
\* leaving shorter runs and all other text unchanged.
C13_FencesKeptRunsReplacedOutside ==
  renderPc = "done" =>
    renderedMarkdown = FencesKeptRunsReplaced(SplitFencedFrom(renderMarkdown, 1, 1), 1)

-----------------------------------------------------------------------------
(* The document settings of App and its three PaletteColorField components. *)
(* The App of part_000 keeps the single margin of the older file format;    *)
(* the margin state here is the pair of margins parseStylesetState returns. *)
(* One step is one event with the render React commits after it.            *)

MaxSettingsOps == 4

IMPORT_ERROR_NOTICE == [tone |-> "error", message |-> "Could not import that styleset JSON file."]

ImportedNotice(fileName) == [tone |-> "default", message |-> "Imported styleset from " \o fileName \o "."]

NoNotice == [tone |-> "", message |-> ""]

\* The effects of one PaletteColorField after a render of App in which its value
\* prop went from oldValue to newValue: a changed value drops the timeout and
\* becomes the draft; otherwise the third effect runs again (onCommit is a new
\* closure at every render of App) and schedules the draft, if it differs, with
\* the commitGeneration of this render.
RenderPaletteField(oldValue, newValue, draft, generation) ==
  IF newValue # oldValue
  THEN [draftValue |-> newValue, pending |-> NoTimer]
  ELSE IF draft = newValue
       THEN [draftValue |-> draft, pending |-> NoTimer]
       ELSE [draftValue |-> draft, pending |-> [draftValue |-> draft, commitGeneration |-> generation]]

\* App renders with the style nextStyle: the fields read the generation ref.
RenderApp(nextStyle) ==
  /\ commitGeneration' = paletteCommitGenerationRef'
  /\ draftValue' = [key \in PALETTE_STYLE_KEYS |->
       RenderPaletteField(styleState[key], nextStyle[key], draftValue[key],
                          paletteCommitGenerationRef').draftValue]
  /\ pendingCommitRef' = [key \in PALETTE_STYLE_KEYS |->
       RenderPaletteField(styleState[key], nextStyle[key], draftValue[key],
                          paletteCommitGenerationRef').pending]

\* Every setState of the handler was given the value the state already holds.
NoRender == UNCHANGED <<commitGeneration, draftValue, pendingCommitRef>>

Snapshot ==
  [ themeSelection |-> themeSelection, pagePresetKey |-> pagePresetKey, marginsMm |-> marginsMm,
    styleState |-> styleState, chromeState |-> chromeState ]

PaletteOf(style) == [key \in PALETTE_STYLE_KEYS |-> style[key]]

Handled(op, key, value, applied) ==
  /\ settingsOps < MaxSettingsOps
  /\ settingsOps' = settingsOps + 1
  /\ lastOp' = [op |-> op, key |-> key, value |-> value, applied |-> applied, before |-> Snapshot]

\* updatePaletteStyle(key)(value, generation) without the generation test.
updatePaletteStyleKeepingTheme(key, value) ==
  /\ themeSelection' = themeSelection
  /\ styleState' = [styleState EXCEPT ![key] = value]
  /\ styleStateRef' = "other"

\* updatePaletteStyle(key)(value, generation), once the generation is current.
updatePaletteStyle(key, value) ==
  /\ themeSelection' = "custom"
  /\ styleState' = [styleState EXCEPT ![key] = value]
  /\ styleStateRef' = "other"

\* onCommit(value, generation) of the field of key.
Commit(key, value, generation) ==
  IF generation # paletteCommitGenerationRef
  THEN UNCHANGED <<themeSelection, styleState, styleStateRef, commitGeneration>>
       /\ draftValue' = draftValue
       /\ pendingCommitRef' = [pendingCommitRef EXCEPT ![key] = NoTimer]
  ELSE updatePaletteStyle(key, value) /\ RenderApp(styleState')

ColorInputs == {"#eeeeee", "#ffffff"}

\* min, max and step of the range inputs of the typography panel
STYLE_SLIDERS ==
  [ bodyFontSize     |-> [min |-> 13000, max |-> 24000, step |-> 1000],
    headingBaseSize  |-> [min |-> 18000, max |-> 36000, step |-> 1000],
    lineHeight       |-> [min |-> 1250,  max |-> 2000,  step |-> 50],
    paragraphSpacing |-> [min |-> 700,   max |-> 1700,  step |-> 50],
    letterSpacing    |-> [min |-> 0 - 20, max |-> 80,   step |-> 5] ]

\* min, max and step of the 'Header size' and 'Footer size' range inputs
CHROME_SLIDERS ==
  [ key \in {"headerFontSizePt", "footerFontSizePt"} |->
      [min |-> MIN_CHROME_FONT_SIZE_PT, max |-> MAX_CHROME_FONT_SIZE_PT, step |-> 1000] ]

\* Number(event.target.value) of a range input lies in the range of the input;
\* each slider is dragged to its upper end, and one of them to its lower end.
StyleEdits ==
  {<<"bodyFontSize", 18000>>, <<"fontFamily", "inter">>}
    \cup {<<key, STYLE_SLIDERS[key].max>> : key \in DOMAIN STYLE_SLIDERS}
    \cup {<<"letterSpacing", STYLE_SLIDERS.letterSpacing.min>>}

ChromeEdits ==
  { <<"headerFontSizePt", CHROME_SLIDERS.headerFontSizePt.min>>,
    <<"footerFontSizePt", CHROME_SLIDERS.footerFontSizePt.max>> }

\* A file whose numbers lie outside the ranges of the sliders, on both sides.
OutOfRangeFile ==
  WithField(
    WithField(DefaultFile, "style",
      WithField(WithField(WithField(WithField(WithField(DefaultFile.fields.style,
        "bodyFontSize", JNum(99000)), "headingBaseSize", JNum(1000)),
        "lineHeight", JNum(100)), "paragraphSpacing", JNum(5000)),
        "letterSpacing", JNum(0 - 1000))),
    "pageChrome",
      WithField(WithField(DefaultFile.fields.pageChrome,
        "headerFontSizePt", JNum(3000)), "footerFontSizePt", JNum(40000)))

SettingsFiles ==
  { INVALID_JSON, JObj([version |-> JNum(2000)]), DefaultFile,
    WithField(WithField(WithField(WithField(DefaultFile, "themePreset", JStr("noir")),
      "pagePreset", JStr("letter")), "marginMm", JNum(24000)),
      "style", WithField(DefaultFile.fields.style, "background", JStr("#191613"))),
    OutOfRangeFile }

InitSettings ==
  /\ styleState = DEFAULT_STYLE
  /\ styleStateRef = "DEFAULT_STYLE"
  /\ themeSelection = DEFAULT_THEME_PRESET
  /\ pagePresetKey = DEFAULT_PAGE_PRESET
  /\ marginsMm = <<DEFAULT_HORIZONTAL_MARGIN_MM, DEFAULT_VERTICAL_MARGIN_MM>>
  /\ chromeState = DEFAULT_PAGE_CHROME
  /\ chromeStateRef = "DEFAULT_PAGE_CHROME"
  /\ stylesetNotice = NoNotice
  /\ paletteCommitGenerationRef = 0
  /\ commitGeneration = 0
  /\ draftValue = PaletteOf(DEFAULT_STYLE)
  /\ pendingCommitRef = [key \in PALETTE_STYLE_KEYS |-> NoTimer]
  /\ importFile = NoText
  /\ settingsOps = 0
  /\ lastOp = NoOp
  /\ settled = NoSettled
  /\ inputSince = FALSE
  /\ IdleExcept("settings")

\* onInput of a colour field: only the field renders, with its props as they are.
InputColor(key, color) ==
  /\ Handled("input", key, color, FALSE)
  /\ draftValue' = [draftValue EXCEPT ![key] = color]
  /\ pendingCommitRef' = [pendingCommitRef EXCEPT ![key] =
       IF color = draftValue[key] THEN @
       ELSE IF color = styleState[key] THEN NoTimer
       ELSE [draftValue |-> color, commitGeneration |-> commitGeneration]]
  /\ inputSince' = TRUE
  /\ UNCHANGED <<settingsState, paletteCommitGenerationRef, commitGeneration, importFile, settled, notSettings>>

\* The timeout of a field comes due.
TimerFires(key) ==
  /\ pendingCommitRef[key] # NoTimer
  /\ Handled("timer", key, pendingCommitRef[key].draftValue,
             pendingCommitRef[key].commitGeneration = paletteCommitGenerationRef)
  /\ UNCHANGED <<paletteCommitGenerationRef, importFile, settled, inputSince, notSettings>>
  /\ Commit(key, pendingCommitRef[key].draftValue, pendingCommitRef[key].commitGeneration)
  /\ UNCHANGED <<pagePresetKey, marginsMm, chromeState, chromeStateRef, stylesetNotice>>

\* handleNativeChange: the colour picker is closed on the colour it shows.
NativeChange(key) ==
  /\ Handled("change", key, draftValue[key], commitGeneration = paletteCommitGenerationRef)
  /\ UNCHANGED <<paletteCommitGenerationRef, importFile, settled, notSettings>>
  /\ Commit(key, draftValue[key], commitGeneration)
  /\ inputSince' = TRUE
  /\ UNCHANGED <<pagePresetKey, marginsMm, chromeState, chromeStateRef, stylesetNotice>>

\* updateStyle(key)(value), from the controls of the fields that are no colours.
UpdateStyle(key, value) ==
  /\ Handled("style", key, value, TRUE)
  /\ themeSelection' = IF isPaletteStyleKey(key) THEN "custom" ELSE themeSelection
  /\ styleState' = [styleState EXCEPT ![key] = value]
  /\ styleStateRef' = "other"
  /\ UNCHANGED <<paletteCommitGenerationRef, importFile, settled, inputSince, notSettings>>
  /\ RenderApp(styleState')
  /\ UNCHANGED <<pagePresetKey, marginsMm, chromeState, chromeStateRef, stylesetNotice>>

\* updatePageChrome(key)(value), from the 'Header size' and 'Footer size' sliders.
UpdatePageChrome(key, value) ==
  /\ Handled("chrome", key, value, TRUE)
  /\ chromeState' = [chromeState EXCEPT ![key] = value]
  /\ chromeStateRef' = "other"
  /\ UNCHANGED <<paletteCommitGenerationRef, importFile, settled, inputSince, notSettings>>
  /\ RenderApp(styleState)
  /\ UNCHANGED <<styleState, styleStateRef, themeSelection, pagePresetKey, marginsMm, stylesetNotice>>

\* handleThemePresetSelect(preset).
HandleThemePresetSelect(preset) ==
  /\ Handled("select", preset, "", TRUE)
  /\ paletteCommitGenerationRef' = paletteCommitGenerationRef + 1
  /\ themeSelection' = preset
  /\ styleState' = applyThemePreset(styleState, preset)
  /\ styleStateRef' = "other"
  /\ RenderApp(styleState')
  /\ settled' = [themeSelection |-> themeSelection', palette |-> PaletteOf(styleState')]
  /\ inputSince' = FALSE
  /\ UNCHANGED <<pagePresetKey, marginsMm, chromeState, chromeStateRef, stylesetNotice>>
  /\ UNCHANGED <<importFile, notSettings>>

\* resetAll: App renders again unless every state already holds its default.
ResetAll ==
  /\ Handled("reset", "", "", TRUE)
  /\ paletteCommitGenerationRef' = paletteCommitGenerationRef + 1
  /\ styleState' = DEFAULT_STYLE
  /\ styleStateRef' = "DEFAULT_STYLE"
  /\ pagePresetKey' = DEFAULT_PAGE_PRESET
  /\ themeSelection' = DEFAULT_THEME_PRESET
  /\ marginsMm' = <<DEFAULT_HORIZONTAL_MARGIN_MM, DEFAULT_VERTICAL_MARGIN_MM>>
  /\ chromeState' = DEFAULT_PAGE_CHROME
  /\ chromeStateRef' = "DEFAULT_PAGE_CHROME"
  /\ stylesetNotice' = NoNotice
  /\ IF /\ styleStateRef = "DEFAULT_STYLE" /\ chromeStateRef = "DEFAULT_PAGE_CHROME"
        /\ pagePresetKey = DEFAULT_PAGE_PRESET /\ themeSelection = DEFAULT_THEME_PRESET
        /\ marginsMm = marginsMm' /\ stylesetNotice = NoNotice
     THEN NoRender
     ELSE RenderApp(styleState')
  /\ settled' = [themeSelection |-> themeSelection', palette |-> PaletteOf(styleState')]
  /\ inputSince' = FALSE
  /\ UNCHANGED <<importFile, notSettings>>

\* handleImportStyleset as far as await file.text().
ImportStart(text) ==
  /\ importFile = NoText
  /\ Handled("import-start", "", "", FALSE)
  /\ importFile' = [name |-> "styleset.json", text |-> text]
  /\ UNCHANGED <<settingsState, paletteFields, settled, inputSince, notSettings>>

\* A catch block that also puts the theme selection back to the default.
ImportRejectedResettingTheme ==
  /\ stylesetNotice' = IMPORT_ERROR_NOTICE
  /\ themeSelection' = DEFAULT_THEME_PRESET
  /\ UNCHANGED <<styleState, pagePresetKey, marginsMm, chromeState>>

\* The catch block of handleImportStyleset.
ImportRejected ==
  /\ stylesetNotice' = IMPORT_ERROR_NOTICE
  /\ UNCHANGED <<styleState, themeSelection, pagePresetKey, marginsMm, chromeState>>

\* handleImportStyleset from parseStylesetState on: the try block or the catch.
ImportFinish ==
  /\ importFile # NoText
  /\ LET imported == parseStylesetState(importFile.text) IN
       /\ Handled("import", "", importFile.text, ~imported.threw)
       /\ IF imported.threw
          THEN /\ ImportRejected
               /\ UNCHANGED <<styleStateRef, chromeStateRef>>
               /\ UNCHANGED <<paletteCommitGenerationRef, settled, inputSince>>
               /\ IF stylesetNotice = IMPORT_ERROR_NOTICE THEN NoRender ELSE RenderApp(styleState)
          ELSE /\ paletteCommitGenerationRef' = paletteCommitGenerationRef + 1
               /\ themeSelection' = imported.value.themePreset
               /\ pagePresetKey' = imported.value.pagePreset
               /\ marginsMm' = <<imported.value.horizontalMarginMm, imported.value.verticalMarginMm>>
               /\ styleState' = imported.value.style
               /\ styleStateRef' = "other"
               /\ chromeState' = imported.value.pageChrome
               /\ chromeStateRef' = "other"
               /\ stylesetNotice' = ImportedNotice(importFile.name)
               /\ RenderApp(styleState')
               /\ settled' = [themeSelection |-> themeSelection', palette |-> PaletteOf(styleState')]
               /\ inputSince' = FALSE
  /\ importFile' = NoText
  /\ UNCHANGED notSettings

NextSettings ==
  \/ \E key \in PALETTE_STYLE_KEYS, color \in ColorInputs : InputColor(key, color)
  \/ \E key \in PALETTE_STYLE_KEYS : TimerFires(key)
  \/ \E key \in PALETTE_STYLE_KEYS : NativeChange(key)
  \/ \E edit \in StyleEdits : UpdateStyle(edit[1], edit[2])
  \/ \E edit \in ChromeEdits : UpdatePageChrome(edit[1], edit[2])
  \/ \E preset \in DOMAIN THEME_PRESETS : HandleThemePresetSelect(preset)
  \/ ResetAll
  \/ \E text \in SettingsFiles : ImportStart(text)
  \/ ImportFinish

SpecSettings == InitSettings /\ [][NextSettings]_vars

-----------------------------------------------------------------------------
(* Claims about the document settings *)

PresetPalette(preset) == [key \in PALETTE_STYLE_KEYS |-> THEME_PRESETS[preset][key]]

\* C14: every committed edit of a palette field (background, text or accent)
\* sets the theme selection to "custom" and the field to the committed colour;
\* every edit of a style field that is no palette field leaves the theme
\* selection as it was; selecting a preset sets the theme selection to the
\* preset key and the three palette fields to the triple of the preset.  A
\* palette edit after a selection is a committed edit, so it gives "custom".
C14_PaletteEditsGiveCustom ==
  /\ (lastOp.op \in {"timer", "change"} /\ lastOp.applied)
       => themeSelection = "custom" /\ styleState[lastOp.key] = lastOp.value
  /\ (lastOp.op = "style" /\ ~isPaletteStyleKey(lastOp.key))
       => /\ themeSelection = lastOp.before.themeSelection
          /\ PaletteOf(styleState) = PaletteOf(lastOp.before.styleState)
  /\ lastOp.op = "select"
       => themeSelection = lastOp.key /\ PaletteOf(styleState) = PresetPalette(lastOp.key)

\* A colour entered after "Noir Print" was selected has been committed by the
\* timeout of its field.
C14_Witness ==
  /\ lastOp.op = "timer" /\ lastOp.applied
  /\ lastOp.before.themeSelection = "noir"
  /\ settled.themeSelection = "noir"
  /\ inputSince
  /\ themeSelection = "custom"

\* C16 (as claimed): once a theme preset has been selected, the settings reset
\* or a styleset imported, and until the user next enters or picks a colour,
\* the theme selection and the three palette fields stay what that operation
\* made them: no commit of an earlier draft is applied.  This is claimed for
\* every preset, also one whose colour equals the committed value of a field.
C16_NoStaleCommitAfterSelection ==
  (settled # NoSettled /\ ~inputSince)
    => /\ themeSelection = settled.themeSelection
       /\ PaletteOf(styleState) = settled.palette

\* C17: a failed import leaves theme selection, page preset, margin, style and
\* page chrome as they were at the start of handling the file's text and sets
\* the notice to the error message; a successful import makes all five the
\* values parseStylesetState returned for the text.
C17_ImportIsAllOrNothing ==
  lastOp.op = "import"
    => LET imported == parseStylesetState(lastOp.value) IN
       IF imported.threw
       THEN ~lastOp.applied /\ Snapshot = lastOp.before /\ stylesetNotice = IMPORT_ERROR_NOTICE
       ELSE /\ lastOp.applied
            /\ themeSelection = imported.value.themePreset
            /\ pagePresetKey = imported.value.pagePreset
            /\ marginsMm = <<imported.value.horizontalMarginMm, imported.value.verticalMarginMm>>
            /\ styleState = imported.value.style
            /\ chromeState = imported.value.pageChrome
            /\ stylesetNotice.tone = "default"

\* A file of version 2 was rejected while "Noir Print" was selected.
C17_Witness ==
  /\ lastOp.op = "import" /\ ~lastOp.applied
  /\ lastOp.value = JObj([version |-> JNum(2000)])
  /\ themeSelection = "noir"
  /\ styleState.background = "#191613"
  /\ stylesetNotice = IMPORT_ERROR_NOTICE

\* C25: in every reachable state of the editor (after any sequence of slider
\* edits, theme selections, resets and successful imports of a styleset) the
\* numeric fields of the style stay inside their bounds: bodyFontSize in
\* [13, 24], headingBaseSize in [18, 36], lineHeight in [1.25, 2],
\* paragraphSpacing in [0.7, 1.7], letterSpacing in [-0.02, 0.08], and the
\* header and footer font sizes in [7, 16] points.
C25_NumericFieldsInBounds ==
  /\ InRange(styleState.bodyFontSize, 13000, 24000)
  /\ InRange(styleState.headingBaseSize, 18000, 36000)
  /\ InRange(styleState.lineHeight, 1250, 2000)
  /\ InRange(styleState.paragraphSpacing, 700, 1700)
  /\ InRange(styleState.letterSpacing, 0 - 20, 80)
  /\ InRange(chromeState.headerFontSizePt, 7000, 16000)
  /\ InRange(chromeState.footerFontSizePt, 7000, 16000)

\* The file whose numbers are all out of range has been imported: each field
\* stands at the end of its range nearest to the number in the file.
C25_Witness ==
  /\ lastOp.op = "import" /\ lastOp.applied
  /\ lastOp.value = OutOfRangeFile
  /\ styleState.bodyFontSize = 24000
  /\ styleState.headingBaseSize = 18000
  /\ styleState.lineHeight = 1250
  /\ styleState.paragraphSpacing = 1700
  /\ styleState.letterSpacing = 0 - 20
  /\ chromeState.headerFontSizePt = 7000
  /\ chromeState.footerFontSizePt = 16000

\* C26: in every reachable state of the editor, whenever the theme selection
\* is a preset key (not "custom"), the background, text and accent of the
\* style equal the triple of that preset; this holds initially and is kept by
\* palette edits, other style edits, preset selection, reset and import.
C26_PresetSelectionMatchesPalette ==
  themeSelection \in DOMAIN THEME_PRESETS => PaletteOf(styleState) = PresetPalette(themeSelection)

\* Every step but the import of a file keeps the selection and the palette in
\* agreement.
C26_KeptByAllButImport ==
  [][(C26_PresetSelectionMatchesPalette /\ lastOp'.op # "import")
       => C26_PresetSelectionMatchesPalette']_vars

-----------------------------------------------------------------------------
(* The paged preview of App: the effect that runs renderPagedPreview, the    *)
(* two awaits of a run (import('pagedjs'), previewer.preview) and handlePrint. *)
(* A step that sets state includes the render React commits after it and the *)
(* effect of that render, when its dependencies changed.                      *)

MaxRenders == 3

PAGINATION_ERROR == "Paginated preview is unavailable in this session."

PageTotals == {0, 2}

\* The dependency array with paginationError added to it.
PagedPreviewDepsWithError(inputs, error) == <<inputs, error>>

\* The dependency array of the effect; the six inputs are one version number.
PagedPreviewDeps(inputs, error) == <<inputs>>

\* A run of the effect: 'previewer' is the state of the Previewer the run
\* creates ("none" | "live" | "destroyed"), 'holds' whether the variable
\* previewer of its closure refers to it.
NewRequest(inputs) == [stage |-> "import", cancelled |-> FALSE, inputs |-> inputs, outcome |-> "", current |-> TRUE, previewer |-> "none", holds |-> FALSE]

\* previewer?.polisher?.destroy?.() on the previewer of run r, 0 for null.
Destroy(requests, r) ==
  IF r = 0 THEN requests ELSE [requests EXCEPT ![r].previewer = "destroyed"]

\* if (previewerRef.current !== previewer) { destroy it; previewer = null }:
\* while the closure holds its previewer, previewerRef does not.
Release(requests, r) ==
  IF requests[r].holds THEN [Destroy(requests, r) EXCEPT ![r].holds = FALSE] ELSE requests

\* A cleanup that sets cancelled and leaves the previewer of the run alone.
CleanedUpKeepingPreviewer(requests) == [requests EXCEPT ![Len(requests)].cancelled = TRUE]

\* The cleanup of the effect, in the closure of the latest run: cancelled =
\* true, and the previewer the run still holds is destroyed.
CleanedUp(requests) ==
  LET latest == Len(requests)
      released == Release(requests, latest)
  IN [released EXCEPT ![latest].cancelled = TRUE]

\* A finally block that leaves isPaginating as it is.
AfterFinallyKeeping(cancelled, paginating) == paginating

\* isPaginating after the finally block: if (!cancelled) setIsPaginating(false)
AfterFinally(cancelled, paginating) == IF cancelled THEN paginating ELSE FALSE

\* A test of cancelled that never finds the run superseded.
SupersededNever(request) == FALSE

\* The tests of cancelled after each await and in catch and finally.
Superseded(request) == request.cancelled

\* React commits a render with these states; the effect runs if its
\* dependencies changed: cleanup of the run before, then a new run.
CommitRender(requests, inputs, error, paginating) ==
  /\ renderInputs' = inputs
  /\ IF PagedPreviewDeps(inputs, error) # PagedPreviewDeps(renderInputs, paginationError)
     THEN /\ Len(requests) < MaxRenders
          /\ previewRequests' = Append(CleanedUp(requests), NewRequest(inputs))
          /\ isPaginating' = TRUE
          /\ paginationError' = ""
     ELSE /\ previewRequests' = requests
          /\ isPaginating' = paginating
          /\ paginationError' = error

\* The run has returned or thrown: its promise is settled.
Settled(r, outcome) ==
  [previewRequests EXCEPT ![r].stage = "settled", ![r].outcome = outcome,
                          ![r].current = (r = Len(previewRequests))]

\* Both awaits and all that follows them lie inside the try block.
Escapes(stage) == stage \notin {"import", "preview"}

InitPreview ==
  /\ renderInputs = 1
  /\ previewRequests = <<NewRequest(1)>>
  /\ isPaginating = TRUE
  /\ paginationError = ""
  /\ pageCount = 0
  /\ previewerRef = 0
  /\ containerFrom = 0
  /\ pageCountFrom = 0
  /\ unhandledErrors = 0
  /\ lastPrint = NoPrint
  /\ mounted = TRUE
  /\ IdleExcept("preview")

\* One of markdown, fonts, margin, chrome, page preset or style changes.
ChangeRenderInput ==
  /\ mounted
  /\ Len(previewRequests) < MaxRenders
  /\ CommitRender(previewRequests, renderInputs + 1, paginationError, isPaginating)
  /\ UNCHANGED <<pageCount, previewerRef, containerFrom, pageCountFrom, unhandledErrors, lastPrint, mounted, notPreview>>

\* await import('pagedjs') resolves: a superseded run returns, the others go on
\* to previewer.preview.
ImportResolves(r) ==
  /\ previewRequests[r].stage = "import"
  /\ previewRequests' =
       IF Superseded(previewRequests[r]) THEN Settled(r, "returned")
       ELSE [previewRequests EXCEPT ![r].stage = "preview", ![r].previewer = "live",
                                    ![r].holds = TRUE]
  /\ UNCHANGED <<renderInputs, isPaginating, paginationError, pageCount, previewerRef>>
  /\ UNCHANGED <<containerFrom, pageCountFrom, unhandledErrors, lastPrint, mounted, notPreview>>

\* An await of the run rejects, or the code after it throws: catch and finally.
RunThrows(r) ==
  /\ previewRequests[r].stage \in {"import", "preview"}
  /\ unhandledErrors' = unhandledErrors + (IF Escapes(previewRequests[r].stage) THEN 1 ELSE 0)
  /\ IF Superseded(previewRequests[r])
     THEN /\ previewRequests' = Settled(r, "returned")
          /\ UNCHANGED <<renderInputs, isPaginating, paginationError>>
     ELSE CommitRender(Release(Settled(r, "failed"), r), renderInputs, PAGINATION_ERROR,
                       AfterFinally(FALSE, isPaginating))
  /\ UNCHANGED <<pageCount, previewerRef, containerFrom, pageCountFrom, lastPrint, mounted, notPreview>>

\* await previewer.preview(..) resolves with flow.total = total.  A superseded
\* run finds its previewer set to null by the cleanup, throws inside the try
\* block and returns from the catch.
PreviewResolves(r, total) ==
  /\ previewRequests[r].stage = "preview"
  /\ unhandledErrors' = unhandledErrors
  /\ IF Superseded(previewRequests[r])
     THEN /\ previewRequests' = Settled(r, "returned")
          /\ UNCHANGED <<renderInputs, isPaginating, paginationError>>
          /\ UNCHANGED <<pageCount, previewerRef, containerFrom, pageCountFrom>>
     ELSE /\ previewerRef' = r
          /\ containerFrom' = r
          /\ pageCount' = total
          /\ pageCountFrom' = r
          /\ CommitRender(Destroy([Settled(r, "committed") EXCEPT ![r].holds = FALSE],
                                  previewerRef),
                          renderInputs, paginationError, AfterFinally(FALSE, isPaginating))
  /\ UNCHANGED <<lastPrint, mounted, notPreview>>

\* handlePrint: lastPrint records the state in which window.print() is called.
HandlePrint ==
  /\ mounted
  /\ lastPrint' =
       IF isPaginating \/ paginationError # "" \/ pageCount = 0
       THEN lastPrint
       ELSE [ invoked |-> TRUE,
              inFlight |-> previewRequests[Len(previewRequests)].stage # "settled",
              paginationError |-> paginationError,
              pageCount |-> pageCount ]
  /\ UNCHANGED <<renderInputs, previewRequests, isPaginating, paginationError, pageCount>>
  /\ UNCHANGED <<previewerRef, containerFrom, pageCountFrom, unhandledErrors, mounted, notPreview>>

NextPreview ==
  \/ ChangeRenderInput
  \/ \E r \in 1..Len(previewRequests) : ImportResolves(r)
  \/ \E r \in 1..Len(previewRequests) : RunThrows(r)
  \/ \E r \in 1..Len(previewRequests), total \in PageTotals : PreviewResolves(r, total)
  \/ HandlePrint

SpecPreview == InitPreview /\ [][NextPreview]_vars

\* App unmounts: the cleanup of the paged-preview effect, then the cleanup of
\* the effect that owns previewerRef.
Unmount ==
  /\ mounted
  /\ mounted' = FALSE
  /\ previewRequests' = Destroy(CleanedUp(previewRequests), previewerRef)
  /\ previewerRef' = 0
  /\ UNCHANGED <<renderInputs, isPaginating, paginationError, pageCount>>
  /\ UNCHANGED <<containerFrom, pageCountFrom, unhandledErrors, lastPrint, notPreview>>

NextPreviewLifecycle == NextPreview \/ Unmount

SpecPreviewLifecycle == InitPreview /\ [][NextPreviewLifecycle]_vars

\* A pending import('pagedjs') or previewer.preview(..) settles.
SettleRun ==
  \E r \in 1..Len(previewRequests) :
    \/ ImportResolves(r)
    \/ RunThrows(r)
    \/ \E total \in PageTotals : PreviewResolves(r, total)

\* The paged preview when every pending promise settles in the end.
SpecPreviewFair == InitPreview /\ [][NextPreview]_vars /\ WF_vars(SettleRun)

-----------------------------------------------------------------------------
(* Claims about the paged preview *)

CommittedRuns == {r \in 1..Len(previewRequests) : previewRequests[r].outcome = "committed"}

LatestOf(runs) == IF runs = {} THEN 0 ELSE CHOOSE r \in runs : \A q \in runs : q <= r

InFlight == previewRequests[Len(previewRequests)].stage # "settled"

\* C15: in every interleaving of render requests and completions, a run that
\* was superseded by a newer request has not replaced the children of the
\* preview container, is not the held previewer and has not set the page
\* count: every run that committed was the newest request when it did, and the
\* container, previewerRef and the page count all come from the most recent
\* run that completed while it was current.
C15_LastRequestWins ==
  /\ \A r \in CommittedRuns : previewRequests[r].current
  /\ containerFrom = LatestOf(CommittedRuns)
  /\ previewerRef = LatestOf(CommittedRuns)
  /\ pageCountFrom = LatestOf(CommittedRuns)

\* The first run was superseded while previewer.preview was pending and its
\* result discarded; the second run committed.
C15_Witness ==
  /\ Len(previewRequests) >= 2
  /\ previewRequests[1].outcome = "returned"
  /\ previewRequests[2].outcome = "committed"
  /\ containerFrom = 2
  /\ pageCount = 2

\* C18: when the paginator throws or rejects for the run that is current, the
\* error status is set (and stays set until the inputs change) and no
\* exception leaves renderPagedPreview; window.print is not invoked in a state
\* where the error is set, a run is in flight or the page count is 0; and no
\* two runs are started for the same render inputs.
C18_FailureBlocksPrintNoRetry ==
  /\ previewRequests[Len(previewRequests)].outcome = "failed"
       => paginationError = PAGINATION_ERROR /\ ~isPaginating
  /\ unhandledErrors = 0
  /\ (paginationError # "" \/ InFlight \/ pageCount = 0)
       => (isPaginating \/ paginationError # "" \/ pageCount = 0)
  /\ lastPrint.invoked
       => ~lastPrint.inFlight /\ lastPrint.paginationError = "" /\ lastPrint.pageCount # 0
  /\ \A r, q \in 1..Len(previewRequests) :
       r # q => previewRequests[r].inputs # previewRequests[q].inputs

\* A preview of two pages was printed, the inputs changed and the new run
\* failed: the page count is still 2 and the error is set.
C18_Witness ==
  /\ previewRequests[Len(previewRequests)].outcome = "failed"
  /\ paginationError = PAGINATION_ERROR
  /\ pageCount = 2
  /\ lastPrint.invoked

\* the runs whose Previewer exists and has not been destroyed
LivePreviewers == {r \in 1..Len(previewRequests) : previewRequests[r].previewer = "live"}

\* the run whose previewer.preview(..) is pending for the current request
PendingForCurrent(r) ==
  /\ r = Len(previewRequests)
  /\ previewRequests[r].stage = "preview"
  /\ ~previewRequests[r].cancelled

\* C24: every Previewer a render creates is released: it is destroyed when
\* its render is superseded, when its render fails, when the result of a later
\* render replaces it as the committed one, or at unmount; so in every
\* reachable state at most one undestroyed previewer exists besides the one in
\* flight for the current request (it is the one previewerRef holds), and
\* after unmount none remains.
C24_PreviewersAreReleased ==
  /\ \A r \in LivePreviewers : r = previewerRef \/ PendingForCurrent(r)
  /\ \A r \in 1..Len(previewRequests) :
       /\ previewRequests[r].outcome \in {"returned", "failed"}
            => previewRequests[r].previewer # "live"
       /\ (previewRequests[r].cancelled /\ r # previewerRef)
            => previewRequests[r].previewer # "live"
       /\ (previewRequests[r].outcome = "committed" /\ r # LatestOf(CommittedRuns))
            => previewRequests[r].previewer = "destroyed"
  /\ Cardinality({r \in LivePreviewers : ~PendingForCurrent(r)}) <= 1
  /\ ~mounted => LivePreviewers = {} /\ previewerRef = 0

\* The first run committed and its previewer was held until unmount; the
\* second run was pending in previewer.preview when App unmounted: both
\* previewers have been destroyed.
C24_Witness ==
  /\ ~mounted
  /\ Len(previewRequests) = 2
  /\ previewRequests[1].outcome = "committed"
  /\ previewRequests[1].previewer = "destroyed"
  /\ previewRequests[2].stage = "preview"
  /\ previewRequests[2].previewer = "destroyed"

\* C30: if render requests stop arriving and the paginator call of the last
\* request settles (resolves or rejects), the 'paginating' flag eventually
\* becomes false and stays false; it is true from the moment a render request
\* starts until that request, or a newer one replacing it, finishes.
C30_PaginatingUntilLastSettles ==
  /\ [](InFlight => isPaginating)
  /\ [](~InFlight => ~isPaginating)
  /\ <>[](~InFlight /\ ~isPaginating)

\* Two requests were superseded and the third has failed: the flag is down.
C30_Witness ==
  /\ Len(previewRequests) = 3
  /\ previewRequests[1].outcome = "returned"
  /\ previewRequests[2].outcome = "returned"
  /\ previewRequests[3].outcome = "failed"
  /\ ~isPaginating

-----------------------------------------------------------------------------
(* The divider between editor and preview.  splitRatio is an IEEE 754 double: *)
(* a double v of [0.125, 2) is the pair <<hi, lo>> with v * 2^58 =            *)
(* hi * 2^29 + lo, and sums and differences are rounded to 53 significant    *)
(* bits, to nearest, ties to even.                                            *)

MaxLeftRun == 20

DoubleLimb == 536870912

SPLIT_RATIO_START == <<225485783, 21474832>>   \* 0.42

SPLIT_RATIO_STEP == <<16106127, 193273528>>    \* 0.03

SPLIT_RATIO_MIN == <<150323855, 193273536>>    \* 0.28

SPLIT_RATIO_MAX == <<386547056, 343597376>>    \* 0.72

DoubleLessEq(a, b) == a[1] < b[1] \/ (a[1] = b[1] /\ a[2] <= b[2])

\* The spacing of the doubles around x, in units of 2^-58.
DoubleUlp(x) == IF x[1] >= 268435456 THEN 32 ELSE IF x[1] >= 134217728 THEN 16 ELSE 8

RoundToDouble(x) ==
  LET g       == DoubleUlp(x)
      r       == x[2] % g
      roundUp == 2 * r > g \/ (2 * r = g /\ (x[2] \div g) % 2 = 1)
      lo      == x[2] - r + (IF roundUp THEN g ELSE 0)
  IN IF lo = DoubleLimb THEN <<x[1] + 1, 0>> ELSE <<x[1], lo>>

\* a + b
DoubleAdd(a, b) ==
  RoundToDouble(IF a[2] + b[2] >= DoubleLimb
                THEN <<a[1] + b[1] + 1, a[2] + b[2] - DoubleLimb>>
                ELSE <<a[1] + b[1], a[2] + b[2]>>)

\* a - b, for a >= b
DoubleSubtract(a, b) ==
  RoundToDouble(IF a[2] >= b[2]
                THEN <<a[1] - b[1], a[2] - b[2]>>
                ELSE <<a[1] - b[1] - 1, a[2] + DoubleLimb - b[2]>>)

DoubleMax(a, b) == IF DoubleLessEq(a, b) THEN b ELSE a

DoubleMin(a, b) == IF DoubleLessEq(a, b) THEN a ELSE b

\* clamp without its lower bound.
clampDoubleUpperOnly(value, min, max) == DoubleMin(value, max)

\* clamp(value, min, max) on doubles.
clampDouble(value, min, max) == DoubleMin(DoubleMax(value, min), max)

\* (event.clientX - bounds.left) / bounds.width for a workspace of positive
\* width: 0 (and all that is less, as clamp treats it alike), the double just
\* below 0.28, 0.3, 0.5, 0.6, the double just above 0.72, 1.5.
PointerRatios ==
  { <<0, 0>>, <<150323855, 193273520>>, <<161061273, 322122544>>, <<268435456, 0>>,
    <<322122547, 107374176>>, <<386547056, 343597408>>, <<805306368, 0>> }

DividerKeys == {"ArrowLeft", "ArrowRight", "Enter"}

Recorded(event) == IF splitHistory = <<>> THEN <<event>> ELSE <<"more than one">>

InitSplit ==
  /\ splitRatio = SPLIT_RATIO_START
  /\ isResizing = FALSE
  /\ leftRun = 0
  /\ splitHistory = <<>>
  /\ IdleExcept("split")

\* handleDividerKeyDown
HandleDividerKeyDown(key) ==
  /\ splitRatio' =
       IF key = "ArrowLeft"
       THEN clampDouble(DoubleSubtract(splitRatio, SPLIT_RATIO_STEP), SPLIT_RATIO_MIN, SPLIT_RATIO_MAX)
       ELSE IF key = "ArrowRight"
       THEN clampDouble(DoubleAdd(splitRatio, SPLIT_RATIO_STEP), SPLIT_RATIO_MIN, SPLIT_RATIO_MAX)
       ELSE splitRatio
  /\ leftRun' = IF key # "ArrowLeft" THEN 0 ELSE IF leftRun < MaxLeftRun THEN leftRun + 1 ELSE leftRun
  /\ splitHistory' = Recorded(key)
  /\ UNCHANGED <<isResizing, notSplit>>

\* onPointerDown of the divider
StartResizing ==
  /\ isResizing' = TRUE
  /\ leftRun' = 0
  /\ splitHistory' = Recorded("pointerdown")
  /\ UNCHANGED <<splitRatio, notSplit>>

\* handlePointerMove, in a window that is or is not 960 px wide
HandlePointerMove(nextRatio, wide) ==
  /\ splitRatio' = IF ~isResizing \/ ~wide THEN splitRatio
                   ELSE clampDouble(nextRatio, SPLIT_RATIO_MIN, SPLIT_RATIO_MAX)
  /\ leftRun' = 0
  /\ splitHistory' = Recorded("pointermove")
  /\ UNCHANGED <<isResizing, notSplit>>

\* stopResizing
StopResizing ==
  /\ isResizing' = FALSE
  /\ leftRun' = 0
  /\ splitHistory' = Recorded("pointerup")
  /\ UNCHANGED <<splitRatio, notSplit>>

NextSplit ==
  \/ \E key \in DividerKeys : HandleDividerKeyDown(key)
  \/ StartResizing
  \/ \E nextRatio \in PointerRatios, wide \in BOOLEAN : HandlePointerMove(nextRatio, wide)
  \/ StopResizing

SpecSplit == InitSplit /\ [][NextSplit]_vars

-----------------------------------------------------------------------------
(* Claims about the divider *)

InSplitRange == DoubleLessEq(SPLIT_RATIO_MIN, splitRatio) /\ DoubleLessEq(splitRatio, SPLIT_RATIO_MAX)

-----------------------------------------------------------------------------
(* Claims about the margins of an imported styleset *)

\* The page preset a file selects: its pagePreset when that names one of the
\* presets, the default preset when it does not.
SelectedPreset(file) ==
  IF Get(file, "pagePreset").t = "string" /\ Get(file, "pagePreset").v \in DOMAIN PAGE_PRESETS
  THEN Get(file, "pagePreset").v
  ELSE DEFAULT_PAGE_PRESET

\* C20 (as claimed): the margins parseStylesetState returns are clamped against
\* the selected preset, the default preset when the imported one is invalid:
\* the horizontal margin lies in [0, max(0, widthMm / 2 - 12)], the vertical
\* margin in [8, max(8, heightMm / 2 - 12)], and the page width less twice the
\* horizontal margin and the page height less twice the vertical margin are
\* both strictly positive.
C20_MarginsLeaveAPrintableArea ==
  (ssPc = "parsed" /\ ~ssParsed.threw)
    => LET preset   == PAGE_PRESETS[SelectedPreset(ssText)]
           imported == ssParsed.value
       IN /\ imported.pagePreset = SelectedPreset(ssText)
          /\ InRange(imported.horizontalMarginMm, 0, LargerOf(0, (preset.widthMm \div 2) - 12000))
          /\ InRange(imported.verticalMarginMm, 8000, LargerOf(8000, (preset.heightMm \div 2) - 12000))
          /\ preset.widthMm - 2 * imported.horizontalMarginMm > 0
          /\ preset.heightMm - 2 * imported.verticalMarginMm > 0

-----------------------------------------------------------------------------
(* isPaletteStyleKey, as updateStyle uses it, on every key of StyleState and *)
(* from every theme selection                                                *)

StyleStateKeys == DOMAIN DEFAULT_STYLE

ThemeSelections == DOMAIN THEME_PRESETS \cup {"custom"}

\* Values the key of a control may be given: the field's default and one other.
StyleKeyValues == {"default", "other"}

InitStyleKey ==
  /\ styleKey \in StyleStateKeys \X StyleKeyValues
  /\ selectionBefore \in ThemeSelections
  /\ styleKeyResult = NoKeyResult
  /\ IdleExcept("stylekey")

\* updateStyle(key)(value): setThemePreset('custom') if isPaletteStyleKey(key).
UpdateStyleOfKey ==
  /\ ~styleKeyResult.called
  /\ styleKeyResult' =
       [ called            |-> TRUE,
         isPaletteStyleKey |-> isPaletteStyleKey(styleKey[1]),
         themePreset       |-> IF isPaletteStyleKey(styleKey[1]) THEN "custom" ELSE selectionBefore ]
  /\ UNCHANGED <<styleKey, selectionBefore, notStyleKey>>

NextStyleKey == UpdateStyleOfKey

SpecStyleKey == InitStyleKey /\ [][NextStyleKey]_vars

\* C22: isPaletteStyleKey(k) is true for background, text and accent and false
\* for fontFamily, headingFamily, bodyFontSize, headingBaseSize, lineHeight,
\* paragraphSpacing and letterSpacing; so only the three colours make
\* updateStyle set the theme selection to "custom".
C22_OnlyPaletteKeysFlagged ==
  styleKeyResult.called =>
    /\ styleKey[1] \in {"background", "text", "accent"}
         => styleKeyResult.isPaletteStyleKey /\ styleKeyResult.themePreset = "custom"
    /\ styleKey[1] \in {"fontFamily", "headingFamily", "bodyFontSize", "headingBaseSize",
                        "lineHeight", "paragraphSpacing", "letterSpacing"}
         => ~styleKeyResult.isPaletteStyleKey /\ styleKeyResult.themePreset = selectionBefore
    /\ Cardinality(StyleStateKeys) = 10

\* updateStyle was called with accent while "Slate Room" was selected.
C22_Witness ==
  /\ styleKeyResult.called
  /\ styleKey[1] = "accent"
  /\ selectionBefore = "slate"
  /\ styleKeyResult.isPaletteStyleKey
  /\ styleKeyResult.themePreset = "custom"

=============================================================================
